---- MODULE Spec2Model ----
(***************************************************************************)
(* The schedule builder of the advising dashboard: the selected-course     *)
(* list, the add/remove handlers, the schedule balance score recomputed on *)
(* every render, and the adapter that turns catalog-backend courses into   *)
(* the Course records the scorer consumes (specification Spec); the        *)
(* prerequisite resolver's transitive chain (SpecChain); the advisor       *)
(* portal's advisee list and detail views (SpecAdvisor); and the proxy     *)
(* routes to the catalog backend with their mock fallback (SpecProxy);     *)
(* the two versions of the student dashboard page with apiRequest          *)
(* (SpecDashboards, SpecDashboardsFair); the schedule builder with its     *)
(* renders made explicit (SpecRenders); and the chat interface (SpecChat,  *)
(* SpecChatFair).                                                          *)
(* Each specification moves its own variables and holds the others still.  *)
(*                                                                         *)
(* JavaScript numbers are IEEE-754 doubles.  The mean difficulty is        *)
(* computed with double additions and one double division, so the model    *)
(* carries doubles exactly: a finite non-negative double is a triple of    *)
(* 22-bit limbs <<h, m, l>> standing for (h*2^44 + m*2^22 + l) * 2^-60,    *)
(* and every operation rounds its exact result to 53 significant bits,     *)
(* ties to even.  A difficulty index is kept in a Course record as the     *)
(* decimal literal it was written with, in tenths (7 is the literal 0.7,   *)
(* 30 is the literal 3), and converted to its double where it is used.     *)
(***************************************************************************)
EXTENDS Integers, Sequences, FiniteSets, TLC

VARIABLES availableCourses, selectedCourses, completedCodes, isUsingBackend,
          lastOp, resolver, advisor, proxy, dashboard, backendDashboard,
          chat, closure

vars == <<availableCourses, selectedCourses, completedCodes, isUsingBackend,
          lastOp, resolver, advisor, proxy, dashboard, backendDashboard,
          chat, closure>>

\* The state of the schedule builder, and the state of everything else.
builderVars == <<availableCourses, selectedCourses, completedCodes,
                 isUsingBackend, lastOp>>

\* The student pages: the two student dashboards, the chat interface and
\* the value of selectedCourses that the builder's handlers have captured.
pageVars == <<dashboard, backendDashboard, chat, closure>>

otherVars == <<resolver, advisor, proxy, pageVars>>

\* What the prerequisite resolver, the advisor portal and the proxy routes
\* each leave alone.
chainRest == <<builderVars, advisor, proxy, pageVars>>

advisorRest == <<builderVars, resolver, proxy, pageVars>>

proxyRest == <<builderVars, resolver, advisor, pageVars>>

\* Largest number of courses the selected list is explored to.
MaxSelected == 5

(***************************************************************************)
(* IEEE-754 double arithmetic on non-negative values of unit 2^-60.        *)
(***************************************************************************)
Base == 2^22

NaN == <<-1, -1, -1>>

Zero == <<0, 0, 0>>

IsNaN(x) == x[1] = -1

Pow2 == [k \in 0..30 |-> 2^k]

BitLen(n) == CHOOSE k \in 0..30 : n < Pow2[k] /\ (k = 0 \/ n >= Pow2[k-1])

BigBitLen(v) ==
  IF v[1] > 0 THEN 44 + BitLen(v[1])
  ELSE IF v[2] > 0 THEN 22 + BitLen(v[2]) ELSE BitLen(v[3])

BigAdd(x, y) ==
  LET l == x[3] + y[3]
      m == x[2] + y[2] + (l \div Base)
      h == x[1] + y[1] + (m \div Base)
  IN  <<h, m % Base, l % Base>>

BigMulSmall(x, k) ==
  LET l == x[3] * k
      m == x[2] * k + (l \div Base)
      h == x[1] * k + (m \div Base)
  IN  <<h, m % Base, l % Base>>

\* Round an exact value to 53 significant bits, ties to even; sticky says
\* that a non-zero remainder lies below the last limb.
Round53(v, sticky) ==
  LET len == BigBitLen(v) IN
  IF len <= 53 THEN v
  ELSE LET p     == Pow2[len - 53]
           low   == v[3] % p
           half  == p \div 2
           odd   == (v[3] \div p) % 2 = 1
           up    == low > half \/ (low = half /\ (sticky \/ odd))
           trunc == <<v[1], v[2], v[3] - low>>
       IN  IF up THEN BigAdd(trunc, <<0, 0, p>>) ELSE trunc

BigDivInt(x, n) ==
  LET q1 == x[1] \div n
      t2 == (x[1] % n) * Base + x[2]
      q2 == t2 \div n
      t3 == (t2 % n) * Base + x[3]
      q3 == t3 \div n
  IN  Round53(<<q1, q2, q3>>, (t3 % n) > 0)

\* x + y
DAdd(x, y) ==
  IF IsNaN(x) \/ IsNaN(y) THEN NaN ELSE Round53(BigAdd(x, y), FALSE)

\* x / n for a non-negative integer n; 0 / 0 is NaN.
DDiv(x, n) ==
  IF IsNaN(x) \/ (n = 0 /\ x = Zero) THEN NaN ELSE BigDivInt(x, n)

\* x > y; every comparison with NaN is false.
DGt(x, y) ==
  /\ ~IsNaN(x)
  /\ ~IsNaN(y)
  /\ \/ x[1] > y[1]
     \/ x[1] = y[1] /\ x[2] > y[2]
     \/ x[1] = y[1] /\ x[2] = y[2] /\ x[3] > y[3]

\* x < y
DLt(x, y) == DGt(y, x)

\* The double a decimal literal num/den denotes (correctly rounded).
FromDecimal(num, den) == BigDivInt(<<num * Pow2[16], 0, 0>>, den)

\* The division result used as it is, without the || 0.
OrZeroDropped(x) == x

\* x || 0 on a number: NaN and 0 are falsy.
OrZero(x) == IF IsNaN(x) \/ x = Zero THEN Zero ELSE x

\* (x * 10).toFixed(1): the nearest number of tenths, the larger on a tie,
\* as <<integer part, tenth>>; <<"NaN">> for NaN.
ToFixed1Times10(x) ==
  IF IsNaN(x) THEN <<"NaN">>
  ELSE LET y == Round53(BigMulSmall(x, 10), FALSE)
           n == BigAdd(BigMulSmall(y, 10), <<Pow2[15], 0, 0>>)[1] \div Pow2[16]
       IN  <<n \div 10, n % 10>>

(***************************************************************************)
(* Strings that the code inspects are sequences of one-character strings.  *)
(***************************************************************************)
DigitChars == <<"0", "1", "2", "3", "4", "5", "6", "7", "8", "9">>

IsDigit(ch) == \E i \in 1..10 : DigitChars[i] = ch

DigitVal(ch) == (CHOOSE i \in 1..10 : DigitChars[i] = ch) - 1

\* Not-a-number as the result of an integer parse.
IntNaN == 0 - 1

RECURSIVE ParseDigits(_, _)
ParseDigits(s, acc) ==
  IF s = <<>> \/ ~IsDigit(Head(s)) THEN acc
  ELSE ParseDigits(Tail(s), acc * 10 + DigitVal(Head(s)))

\* parseInt(s) of a string without leading blanks or sign: the number its
\* leading decimal digits spell, NaN when it does not start with a digit.
ParseInt(s) ==
  IF s = <<>> \/ ~IsDigit(Head(s)) THEN IntNaN ELSE ParseDigits(s, 0)

\* n || 0 on the result of parseInt.
IntOrZero(n) == IF n = IntNaN THEN 0 ELSE n

ToLowerCase(s) == [i \in DOMAIN s |-> IF s[i] = "L" THEN "l" ELSE s[i]]

Includes(s, ch) == \E i \in DOMAIN s : s[i] = ch

(***************************************************************************)
(* Course records.                                                         *)
(***************************************************************************)
Course(code, credits, dept, level, hasLab, difficultyTenths, prereqs) ==
  [code |-> code, credits |-> credits, dept |-> dept, level |-> level,
   hasLab |-> hasLab, difficultyIndex |-> difficultyTenths,
   prereqs |-> prereqs, status |-> "none"]

\* The double held in course.difficultyIndex.
DoubleOfTenths == [t \in 0..100 |-> FromDecimal(t, 10)]

Difficulty(c) == DoubleOfTenths[c.difficultyIndex]

\* Course lists handed to the builder as availableCourses when the catalog
\* backend is not used: difficulty indexes are written on the 0.0-1.0 scale.
CatalogCourses ==
  << Course("BUAD 203", 3, "BUAD", 203, FALSE, 9, <<"BUAD 101">>),
     Course("CHEM 305", 3, "CHEM", 305, TRUE,  8, <<>>),
     Course("MATH 211", 4, "MATH", 211, FALSE, 7, <<>>),
     Course("STAT 350", 4, "STAT", 350, TRUE,  8, <<"MATH 211">>),
     Course("BUAD 101", 4, "BUAD", 101, FALSE, 5, <<>>),
     Course("MATH 302", 4, "MATH", 302, TRUE,  4, <<>>),
     Course("BUAD 317", 4, "BUAD", 317, FALSE, 8, <<"BUAD 203">>) >>

\* Course responses of the catalog backend.
Section(section_number) == [section_number |-> section_number]

CourseResponse(course_code, subject_code, course_number, credits, sections) ==
  [course_code |-> course_code, subject_code |-> subject_code,
   course_number |-> course_number, credits |-> credits,
   sections |-> sections]

BackendCourses ==
  << CourseResponse("BUAD 101", "BUAD", <<"1", "0", "1">>, 4,
                    <<Section(<<"0", "1">>)>>),
     CourseResponse("MATH 211", "MATH", <<"2", "1", "1">>, 4,
                    <<Section(<<"0", "1">>), Section(<<"0", "1", "L">>)>>),
     CourseResponse("BUAD 350", "BUAD", <<"3", "5", "0">>, 4, <<>>),
     CourseResponse("STAT 410", "STAT", <<"4", "1", "0", "W">>, 4,
                    <<Section(<<"l", "1">>)>>),
     CourseResponse("INTR TBA", "INTR", <<"T", "B", "A">>, 3,
                    <<Section(<<"0", "2">>)>>) >>

(***************************************************************************)
(* adaptCourse / adaptCourses                                              *)
(***************************************************************************)
\* The difficultyIndex adaptCourse assigns, as the number the code writes
\* (3, 5, 7, 9) expressed in tenths.
adaptDifficulty(courseNum) ==
  IF courseNum < 200 THEN 30
  ELSE IF courseNum < 300 THEN 50
  ELSE IF courseNum < 400 THEN 70
  ELSE 90

adaptCourse(backendCourse) ==
  LET courseNum == IntOrZero(ParseInt(backendCourse.course_number))
      hasLab == \E i \in DOMAIN backendCourse.sections :
                  Includes(ToLowerCase(backendCourse.sections[i].section_number), "l")
  IN  [code |-> backendCourse.course_code,
       credits |-> backendCourse.credits,
       dept |-> backendCourse.subject_code,
       level |-> courseNum,
       hasLab |-> hasLab,
       difficultyIndex |-> adaptDifficulty(courseNum),
       prereqs |-> <<>>,
       status |-> "none"]

adaptCourses(backendCourses) ==
  [i \in DOMAIN backendCourses |-> adaptCourse(backendCourses[i])]

(***************************************************************************)
(* calculateScheduleScore                                                  *)
(***************************************************************************)
RECURSIVE SumCredits(_)
SumCredits(courses) ==
  IF courses = <<>> THEN 0
  ELSE SumCredits(SubSeq(courses, 1, Len(courses) - 1))
         + courses[Len(courses)].credits

\* reduce((sum, c) => sum + c.difficultyIndex, 0): double additions, left
\* to right, starting from 0.
RECURSIVE SumDifficulty(_)
SumDifficulty(courses) ==
  IF courses = <<>> THEN Zero
  ELSE DAdd(SumDifficulty(SubSeq(courses, 1, Len(courses) - 1)),
            Difficulty(courses[Len(courses)]))

TotalCredits(courses) == SumCredits(courses)

AvgDifficulty(courses) ==
  OrZero(DDiv(SumDifficulty(courses), Len(courses)))

LabCount(courses) ==
  Cardinality({i \in DOMAIN courses : courses[i].hasLab})

QuantCourses(courses) ==
  Cardinality({i \in DOMAIN courses :
                 courses[i].dept = "MATH" \/ courses[i].dept = "STAT"})

IsSelected(code, courses) == \E i \in DOMAIN courses : courses[i].code = code

\* The number literals 0.7, 0.6 and 0.5 of the scorer.
Threshold07 == FromDecimal(7, 10)

Threshold06 == FromDecimal(6, 10)

Threshold05 == FromDecimal(5, 10)

\* CreditStep with the overload comparison written >= instead of >.
CreditStepAtLeast(st, totalCredits) ==
  IF totalCredits >= 18
  THEN [score |-> st.score - 20,
        warnings |-> Append(st.warnings,
                       "Credit overload: Consider reducing to 15-18 credits")]
  ELSE IF totalCredits > 15
  THEN [score |-> st.score - 5,
        warnings |-> Append(st.warnings,
                       "High credit load: Monitor workload carefully")]
  ELSE st

\* CreditStep with the overload penalty of 20 written as 10.
CreditStepSmallPenalty(st, totalCredits) ==
  IF totalCredits > 18
  THEN [score |-> st.score - 10,
        warnings |-> Append(st.warnings,
                       "Credit overload: Consider reducing to 15-18 credits")]
  ELSE IF totalCredits > 15
  THEN [score |-> st.score - 5,
        warnings |-> Append(st.warnings,
                       "High credit load: Monitor workload carefully")]
  ELSE st

\* Each step takes and returns the running [score, warnings].
CreditStep(st, totalCredits) ==
  IF totalCredits > 18
  THEN [score |-> st.score - 20,
        warnings |-> Append(st.warnings,
                       "Credit overload: Consider reducing to 15-18 credits")]
  ELSE IF totalCredits > 15
  THEN [score |-> st.score - 5,
        warnings |-> Append(st.warnings,
                       "High credit load: Monitor workload carefully")]
  ELSE st

\* LabStep with the comparison written >= instead of >.
LabStepAtLeast(st, labCount) ==
  IF labCount >= 2
  THEN [score |-> st.score - 15,
        warnings |-> Append(st.warnings,
                       "Too many lab courses: Consider moving one to next semester")]
  ELSE st

LabStep(st, labCount) ==
  IF labCount > 2
  THEN [score |-> st.score - 15,
        warnings |-> Append(st.warnings,
                       "Too many lab courses: Consider moving one to next semester")]
  ELSE st

QuantStep(st, quantCourses) ==
  IF quantCourses > 2
  THEN [score |-> st.score - 15,
        warnings |-> Append(st.warnings,
                       "Heavy quant load: Balance with non-quantitative courses")]
  ELSE st

DifficultyStep(st, avgDifficulty) ==
  IF DGt(avgDifficulty, Threshold07)
  THEN [score |-> st.score - 20,
        warnings |-> Append(st.warnings,
                       "Very challenging schedule: Consider balancing difficulty")]
  ELSE IF DGt(avgDifficulty, Threshold06)
  THEN [score |-> st.score - 10, warnings |-> st.warnings]
  ELSE st

\* EasierCourses without the test that the course is not selected.
EasierCoursesAnySelected(selected, available) ==
  SelectSeq(available, LAMBDA c : DLt(Difficulty(c), Threshold05))

\* availableCourses.filter(c => c.difficultyIndex < 0.5 && !selected)
EasierCourses(selected, available) ==
  SelectSeq(available,
            LAMBDA c : /\ DLt(Difficulty(c), Threshold05)
                       /\ ~IsSelected(c.code, selected))

Suggestions(selected, available, avgDifficulty) ==
  IF DGt(avgDifficulty, Threshold07)
  THEN LET easierCourses == EasierCourses(selected, available)
       IN  IF Len(easierCourses) > 0
           THEN << <<"Consider replacing a difficult course with ",
                     easierCourses[1].code>> >>
           ELSE <<>>
  ELSE <<>>

Min(a, b) == IF a < b THEN a ELSE b

Max(a, b) == IF a > b THEN a ELSE b

\* Math.max(0, Math.min(100, score))
Clamp(score) == Max(0, Min(100, score))

\* Rationale with the first comparison written > instead of >=.
RationaleStrict(score) ==
  IF score > 80 THEN "Well-balanced schedule"
  ELSE IF score >= 60 THEN "Moderately challenging schedule"
  ELSE "Consider adjusting for better balance"

Rationale(score) ==
  IF score >= 80 THEN "Well-balanced schedule"
  ELSE IF score >= 60 THEN "Moderately challenging schedule"
  ELSE "Consider adjusting for better balance"

\* The running [score, warnings] after the credit, lab and quant checks.
BeforeDifficulty(selected) ==
  QuantStep(LabStep(CreditStep([score |-> 100, warnings |-> <<>>],
                               TotalCredits(selected)),
                    LabCount(selected)),
            QuantCourses(selected))

\* calculateScheduleScore with the overload penalty added instead of
\* subtracted and the final clamp left out.
calculateScheduleScoreUnclamped(selected, available) ==
  LET avgDifficulty == AvgDifficulty(selected)
      credit == CreditStep([score |-> 100, warnings |-> <<>>],
                           TotalCredits(selected))
      start  == [credit EXCEPT !.score = 200 - credit.score]
      st     == DifficultyStep(
                  QuantStep(LabStep(start, LabCount(selected)),
                            QuantCourses(selected)),
                  avgDifficulty)
  IN  [score |-> st.score,
       rationale |-> Rationale(st.score),
       suggestedSwaps |-> Suggestions(selected, available, avgDifficulty),
       warnings |-> st.warnings]

calculateScheduleScore(selected, available) ==
  LET avgDifficulty == AvgDifficulty(selected)
      st    == DifficultyStep(BeforeDifficulty(selected), avgDifficulty)
      score == Clamp(st.score)
  IN  [score |-> score,
       rationale |-> Rationale(score),
       suggestedSwaps |-> Suggestions(selected, available, avgDifficulty),
       warnings |-> st.warnings]

(***************************************************************************)
(* The component: props, state and handlers.                               *)
(***************************************************************************)
\* Codes of completed courses in the student's record.
CompletedInputs == {{}, {"BUAD 101"}}

\* currentCourses handed to the builder.
CurrentInputs ==
  {<<>>, <<[CatalogCourses[3] EXCEPT !.status = "enrolled"]>>}

\* The prerequisite resolver before any chain is asked for.
ResolverIdle ==
  [catalog |-> <<>>, course |-> "", stack |-> <<>>, chain |-> <<>>,
   status |-> "idle", repeated |-> "", steps |-> 0]

\* The advisor portal before it is opened.
AdvisorIdle ==
  [advisees |-> <<>>, searchQuery |-> <<>>, filter |-> "all",
   selectedAdvisee |-> 0]

\* A request to a proxy route: the query parameters and the path parameter,
\* as character sequences; an absent parameter and an empty one are both the
\* empty sequence (the routes test them with || and !).  subject is only
\* compared and forwarded and stays a string.
Request(subject, limit, offset, q, courseCode) ==
  [subject |-> subject, limit |-> limit, offset |-> offset, q |-> q,
   courseCode |-> courseCode]

\* What a route hands to NextResponse.json: the HTTP status, the
\* isFromBackend field ("absent" when the body has none), the error field,
\* and the payload (courses, results, course, subjects or term info as
\* items, with total, term_code and query where the body has them).
Response(status, isFromBackend, error, items, total, term_code, query) ==
  [status |-> status, isFromBackend |-> isFromBackend, error |-> error,
   items |-> items, total |-> total, term_code |-> term_code,
   query |-> query]

\* The proxy routes before any request.
ProxyIdle ==
  [status |-> "idle", route |-> "", request |-> Request("", <<>>, <<>>, <<>>, <<>>),
   backend |-> "", backendCalled |-> FALSE,
   response |-> Response(0, "absent", "", <<>>, 0, "", <<>>)]

\* The student dashboard of part_006 before its effect has run.
DashboardIdle ==
  [loading |-> TRUE, pc |-> "unmounted", activeTab |-> "overview",
   cause |-> "", response |-> Response(0, "absent", "", <<>>, 0, "", <<>>)]

\* A call of apiRequest: not made ("none"), awaiting the backend's response
\* ("pending"), or settled with the response res and the outcome of the
\* promise.
Call(status, res, outcome) ==
  [status |-> status, res |-> res, outcome |-> outcome]

NoCall ==
  Call("none",
       [ok |-> FALSE, status |-> 0, statusText |-> "",
        body |-> [json |-> FALSE, detail |-> "", message |-> "", text |-> ""]],
       [kind |-> "", error |-> "", status |-> 0, message |-> ""])

\* The backend-driven student dashboard (part_005) before it is mounted.
\* backend tells whether the backend's endpoints are in order.
BackendDashboardIdle ==
  [student |-> "", currentCourses |-> <<>>, completedCourses |-> <<>>,
   milestones |-> <<>>, availableCourses |-> <<>>, loading |-> TRUE,
   isUsingBackend |-> FALSE, activeTab |-> "overview", pc |-> "unmounted",
   backend |-> "", profile |-> NoCall]

\* The chat interface before it is mounted.  timers counts the timeouts that
\* are set and have not fired, calls the calls of handleSend.
ChatIdle ==
  [messages |-> <<>>, input |-> <<>>, isLoading |-> FALSE, timers |-> 0,
   calls |-> 0, mounted |-> FALSE]

\* What the handlers of a rendered schedule builder hold: the selectedCourses
\* their render captured, and the calls made to them since that render.
ClosureIdle == [selectedCourses |-> <<>>, issued |-> <<>>]

PagesIdle ==
  /\ dashboard = DashboardIdle
  /\ backendDashboard = BackendDashboardIdle
  /\ chat = ChatIdle
  /\ closure = ClosureIdle

Init ==
  /\ PagesIdle
  /\ resolver = ResolverIdle
  /\ advisor = AdvisorIdle
  /\ proxy = ProxyIdle
  /\ isUsingBackend \in BOOLEAN
  /\ availableCourses =
       IF isUsingBackend THEN adaptCourses(BackendCourses) ELSE CatalogCourses
  /\ selectedCourses \in CurrentInputs
  /\ completedCodes \in CompletedInputs
  /\ lastOp = [name |-> "mount", code |-> ""]

\* addCourseResult refusing an addition that takes the total above 18 credits.
addCourseResultCreditLimit(selected, course) ==
  IF ~IsSelected(course.code, selected)
     /\ TotalCredits(selected) + course.credits <= 18
  THEN Append(selected, [course EXCEPT !.status = "planned"])
  ELSE selected

\* What addCourse passes to setSelectedCourses, or the unchanged list when
\* the code is already selected.
addCourseResult(selected, course) ==
  IF ~IsSelected(course.code, selected)
  THEN Append(selected, [course EXCEPT !.status = "planned"])
  ELSE selected

\* addCourse appending without looking for the code in the selection.
addCourseUnguarded(course) ==
  /\ Len(selectedCourses) < MaxSelected
  /\ selectedCourses' = Append(selectedCourses, [course EXCEPT !.status = "planned"])
  /\ lastOp' = [name |-> "addCourse", code |-> course.code]
  /\ UNCHANGED <<availableCourses, completedCodes, isUsingBackend>>
  /\ UNCHANGED otherVars

addCourse(course) ==
  /\ Len(addCourseResult(selectedCourses, course)) <= MaxSelected
  /\ selectedCourses' = addCourseResult(selectedCourses, course)
  /\ lastOp' = [name |-> "addCourse", code |-> course.code]
  /\ UNCHANGED <<availableCourses, completedCodes, isUsingBackend>>
  /\ UNCHANGED otherVars

removeCourseResult(selected, courseCode) ==
  SelectSeq(selected, LAMBDA c : c.code # courseCode)

removeCourse(courseCode) ==
  /\ selectedCourses' = removeCourseResult(selectedCourses, courseCode)
  /\ lastOp' = [name |-> "removeCourse", code |-> courseCode]
  /\ UNCHANGED <<availableCourses, completedCodes, isUsingBackend>>
  /\ UNCHANGED otherVars

Next ==
  \/ \E i \in DOMAIN availableCourses : addCourse(availableCourses[i])
  \/ \E i \in DOMAIN selectedCourses : removeCourse(selectedCourses[i].code)

Spec == Init /\ [][Next]_vars

\* const scheduleScore = calculateScheduleScore(), and the two values the
\* component recomputes for display, at the current render.
ScheduleScore == calculateScheduleScore(selectedCourses, availableCourses)

DisplayedTotalCredits == TotalCredits(selectedCourses)

DisplayedAvgDifficulty == ToFixed1Times10(AvgDifficulty(selectedCourses))

TypeOK ==
  /\ ScheduleScore.score \in Int
  /\ Len(DisplayedAvgDifficulty) \in {1, 2}

(***************************************************************************)
(* Properties.                                                             *)
(***************************************************************************)
Range(seq) == {seq[i] : i \in DOMAIN seq}

Last(seq) == seq[Len(seq)]

\* The prerequisite codes of a course that are not among the completed ones.
MissingPrereqs(course, completed) == Range(course.prereqs) \ completed

\* C1: a course with a prerequisite the student has not completed is never
\* added to the planned schedule: no planned course of the selected list has
\* a missing prerequisite.
C1_MissingPrereqBlocks ==
  \A i \in DOMAIN selectedCourses :
    selectedCourses[i].status = "planned"
      => MissingPrereqs(selectedCourses[i], completedCodes) = {}

\* C2: credit load never blocks an addition: after addCourse(c) the course c
\* is selected whatever the total credits are, and a total above 18 shows
\* only as the overload warning of the evaluation.
C2_CreditLoadNeverBlocks ==
  /\ lastOp.name = "addCourse" => IsSelected(lastOp.code, selectedCourses)
  /\ TotalCredits(selectedCourses) > 18 =>
       "Credit overload: Consider reducing to 15-18 credits"
          \in Range(ScheduleScore.warnings)

C2_Witness ==
  /\ lastOp.name = "addCourse"
  /\ selectedCourses # <<>>
  /\ Last(selectedCourses).code = lastOp.code
  /\ Last(selectedCourses).status = "planned"
  /\ TotalCredits(selectedCourses) > 18
  /\ TotalCredits(SubSeq(selectedCourses, 1, Len(selectedCourses) - 1)) <= 18

\* C3: before the difficulty factor the score is 100 minus the additive
\* penalties 20 (credits > 18) else 5 (credits > 15), 15 (more than 2 labs)
\* and 15 (more than 2 MATH/STAT courses); each penalty that applies adds
\* exactly its one warning, in this order, and no other warning is added.
C3_AdditivePenalties ==
  LET st      == BeforeDifficulty(selectedCourses)
      credits == TotalCredits(selectedCourses)
      labs    == LabCount(selectedCourses)
      quant   == QuantCourses(selectedCourses)
      creditPenalty == IF credits > 18 THEN 20 ELSE IF credits > 15 THEN 5 ELSE 0
      labPenalty    == IF labs > 2 THEN 15 ELSE 0
      quantPenalty  == IF quant > 2 THEN 15 ELSE 0
      creditWarning ==
        IF credits > 18
        THEN <<"Credit overload: Consider reducing to 15-18 credits">>
        ELSE IF credits > 15
        THEN <<"High credit load: Monitor workload carefully">>
        ELSE <<>>
      labWarning ==
        IF labs > 2
        THEN <<"Too many lab courses: Consider moving one to next semester">>
        ELSE <<>>
      quantWarning ==
        IF quant > 2
        THEN <<"Heavy quant load: Balance with non-quantitative courses">>
        ELSE <<>>
  IN  /\ st.score = 100 - creditPenalty - labPenalty - quantPenalty
      /\ st.warnings = creditWarning \o labWarning \o quantWarning

\* Exactly 15 credits, exactly 2 labs and exactly 2 quantitative courses:
\* no penalty and no warning.
C3_Witness ==
  /\ TotalCredits(selectedCourses) = 15
  /\ LabCount(selectedCourses) = 2
  /\ QuantCourses(selectedCourses) = 2
  /\ BeforeDifficulty(selectedCourses) = [score |-> 100, warnings |-> <<>>]

\* The sum of the difficulty indexes as written, in tenths.
RECURSIVE SumTenths(_)
SumTenths(courses) ==
  IF courses = <<>> THEN 0
  ELSE SumTenths(Tail(courses)) + Head(courses).difficultyIndex

\* The mean of the difficulty indexes as written is greater than tenths/10
\* (the mean of no courses counts as 0).
MeanAbove(courses, tenths) == SumTenths(courses) > tenths * Len(courses)

\* What the difficulty check subtracts from the score.
DifficultyPenalty(courses) ==
  BeforeDifficulty(courses).score
    - DifficultyStep(BeforeDifficulty(courses), AvgDifficulty(courses)).score

\* C4: the difficulty penalty is 20 when the mean difficulty index of the
\* selected courses is strictly greater than 0.7, otherwise 10 when it is
\* strictly greater than 0.6, otherwise 0; a mean of exactly 0.6 is not
\* penalised and a mean of exactly 0.7 is penalised by 10.
C4_DifficultyPenalty ==
  DifficultyPenalty(selectedCourses) =
    IF MeanAbove(selectedCourses, 7) THEN 20
    ELSE IF MeanAbove(selectedCourses, 6) THEN 10
    ELSE 0

\* C5: every course that reaches the scorer carries its difficulty index on
\* the 0.0-1.0 scale of the scorer's thresholds.
C5_DifficultyScale ==
  /\ \A i \in DOMAIN availableCourses :
       availableCourses[i].difficultyIndex \in 0..10
  /\ \A i \in DOMAIN selectedCourses :
       selectedCourses[i].difficultyIndex \in 0..10

\* C6 as stated: with total credits above 18 and mean difficulty above 0.7
\* the score is at most 60, there are at least two warnings and the
\* rationale is the "consider adjusting" label.
C6_OverloadExample ==
  (TotalCredits(selectedCourses) > 18 /\ MeanAbove(selectedCourses, 7)) =>
    /\ ScheduleScore.score <= 60
    /\ Len(ScheduleScore.warnings) >= 2
    /\ ScheduleScore.rationale = "Consider adjusting for better balance"

\* C6 as amended: with total credits above 18 and a mean difficulty that the
\* scorer computes as above 0.7 the score is at most 60 and there are at
\* least two warnings (the overload and the difficulty warning); the
\* rationale is the "consider adjusting" label when the score is below 60
\* and "moderately challenging" when the score is exactly 60.  A mean of the
\* written indexes above 0.7 is always computed as above 0.7.
C6_OverloadExampleAmended ==
  /\ MeanAbove(selectedCourses, 7)
       => DGt(AvgDifficulty(selectedCourses), Threshold07)
  /\ (/\ TotalCredits(selectedCourses) > 18
      /\ DGt(AvgDifficulty(selectedCourses), Threshold07)) =>
    /\ ScheduleScore.score <= 60
    /\ Len(ScheduleScore.warnings) >= 2
    /\ "Credit overload: Consider reducing to 15-18 credits"
          \in Range(ScheduleScore.warnings)
    /\ "Very challenging schedule: Consider balancing difficulty"
          \in Range(ScheduleScore.warnings)
    /\ ScheduleScore.rationale =
         IF ScheduleScore.score < 60
         THEN "Consider adjusting for better balance"
         ELSE "Moderately challenging schedule"

C6_Witness ==
  /\ TotalCredits(selectedCourses) > 18
  /\ MeanAbove(selectedCourses, 7)
  /\ ~isUsingBackend
  /\ ScheduleScore.score = 60
  /\ Len(ScheduleScore.warnings) = 2
  /\ ScheduleScore.rationale = "Moderately challenging schedule"

\* C7: the rationale label is a total function of the score with three
\* disjoint tiers: "well-balanced" exactly when score >= 80, "moderately
\* challenging" exactly when 60 <= score <= 79, "consider adjusting" exactly
\* when score < 60; so for every score in 0..100, and for the score and
\* rationale of the current evaluation.
C7_RationaleTiers ==
  LET Tiered(score, label) ==
        /\ label = "Well-balanced schedule" <=> score >= 80
        /\ label = "Moderately challenging schedule"
             <=> (60 <= score /\ score <= 79)
        /\ label = "Consider adjusting for better balance" <=> score < 60
  IN  /\ \A score \in 0..100 : Tiered(score, Rationale(score))
      /\ Tiered(ScheduleScore.score, ScheduleScore.rationale)

C7_Witness ==
  /\ ScheduleScore.score = 80
  /\ ScheduleScore.rationale = "Well-balanced schedule"
  /\ selectedCourses # <<>>

\* C8: for the empty course set the score is exactly 100, there are no
\* warnings and no suggested swaps, and the mean difficulty is 0, never NaN,
\* in the evaluation and in the displayed average.
C8_EmptySchedule ==
  selectedCourses = <<>> =>
    /\ ScheduleScore.score = 100
    /\ ScheduleScore.warnings = <<>>
    /\ ScheduleScore.suggestedSwaps = <<>>
    /\ AvgDifficulty(selectedCourses) = Zero
    /\ DisplayedAvgDifficulty = <<0, 0>>
    /\ DisplayedTotalCredits = 0

\* The empty set reached by removing the last selected course.
C8_Witness ==
  /\ selectedCourses = <<>>
  /\ lastOp.name = "removeCourse"
  /\ DDiv(SumDifficulty(selectedCourses), Len(selectedCourses)) = NaN

\* C9: for every course set the final score lies in [0, 100].
C9_ScoreInRange ==
  /\ ScheduleScore.score >= 0
  /\ ScheduleScore.score <= 100

\* Every penalty applies at once: the lowest score.
C9_Witness ==
  /\ TotalCredits(selectedCourses) > 18
  /\ LabCount(selectedCourses) > 2
  /\ QuantCourses(selectedCourses) > 2
  /\ DGt(AvgDifficulty(selectedCourses), Threshold07)
  /\ ScheduleScore.score = 30

\* The courses of a list at the positions in keep, in list order.
RECURSIVE SubList(_, _)
SubList(seq, keep) ==
  IF seq = <<>> THEN <<>>
  ELSE LET rest == SubList(SubSeq(seq, 1, Len(seq) - 1), keep)
       IN  IF Len(seq) \in keep THEN Append(rest, seq[Len(seq)]) ELSE rest

\* Every course set that can be drawn from either course list and totals
\* exactly 18 credits.
EighteenCreditSchedules ==
  LET lists == {CatalogCourses, adaptCourses(BackendCourses)}
  IN  {sel \in UNION {{SubList(list, keep) : keep \in SUBSET DOMAIN list} :
                        list \in lists} :
         TotalCredits(sel) = 18}

\* Two course sets agree on lab count, quantitative-course count and mean
\* difficulty (the mean as computed, or the mean of the indexes as written).
AllElseEqual(a, b) ==
  /\ LabCount(a) = LabCount(b)
  /\ QuantCourses(a) = QuantCourses(b)
  /\ \/ AvgDifficulty(a) = AvgDifficulty(b)
     \/ SumTenths(a) * Len(b) = SumTenths(b) * Len(a)

\* C10: a course set with total credits above 18 scores strictly lower than
\* every course set with total credits 18 that agrees with it on lab count,
\* quantitative-course count and mean difficulty.
C10_MonotonicAcross18 ==
  TotalCredits(selectedCourses) > 18 =>
    \A other \in EighteenCreditSchedules :
      AllElseEqual(selectedCourses, other) =>
        ScheduleScore.score
          < calculateScheduleScore(other, availableCourses).score

C10_Witness ==
  /\ TotalCredits(selectedCourses) = 19
  /\ \E other \in EighteenCreditSchedules :
       /\ AllElseEqual(selectedCourses, other)
       /\ calculateScheduleScore(other, availableCourses).score
            = ScheduleScore.score + 15

\* --------------------------------------------------------------------------
\* C11  The evaluation is a function of the selected courses and the available
\*      list only, and its score, rationale and warnings do not depend on the
\*      order in which the selected courses are listed: every reordering of
\*      the current selection evaluates to the same score, rationale and
\*      warnings.
Reorder(courses, p) == [i \in DOMAIN courses |-> courses[p[i]]]

C11_OrderIndependent ==
  \A p \in Permutations(DOMAIN selectedCourses) :
    LET other == calculateScheduleScore(Reorder(selectedCourses, p), availableCourses)
    IN  /\ other.score = ScheduleScore.score
        /\ other.rationale = ScheduleScore.rationale
        /\ other.warnings = ScheduleScore.warnings

\* --------------------------------------------------------------------------
\* The codes of the available courses whose difficulty index as written is
\* below 0.5 and which are not selected.
SwapCandidates ==
  { availableCourses[i].code : i \in
      { j \in DOMAIN availableCourses :
          /\ availableCourses[j].difficultyIndex < 5
          /\ ~IsSelected(availableCourses[j].code, selectedCourses) } }

\* C12  A swap is suggested if and only if the mean difficulty of the selected
\*      courses is above 0.7 and some available course with difficulty below
\*      0.5 is not selected; a suggested course is never a selected one, and
\*      without such a candidate the suggestion list is empty.
C12_SwapIffHardAndCandidate ==
  /\ (ScheduleScore.suggestedSwaps # <<>>)
       <=> (MeanAbove(selectedCourses, 7) /\ SwapCandidates # {})
  /\ \A i \in DOMAIN ScheduleScore.suggestedSwaps :
       /\ ScheduleScore.suggestedSwaps[i][2] \in SwapCandidates
       /\ ~IsSelected(ScheduleScore.suggestedSwaps[i][2], selectedCourses)
  /\ SwapCandidates = {} => ScheduleScore.suggestedSwaps = <<>>

\* --------------------------------------------------------------------------
\* The selected courses with the highest difficulty index.
HardestSelected ==
  { selectedCourses[i].code : i \in
      { j \in DOMAIN selectedCourses :
          \A k \in DOMAIN selectedCourses :
            selectedCourses[k].difficultyIndex <= selectedCourses[j].difficultyIndex } }

\* C13 (as stated)  Whenever a swap is suggested, the suggestion names the
\*      hardest selected course as the one to be replaced.
C13_NamesHardest ==
  \A i \in DOMAIN ScheduleScore.suggestedSwaps :
    Range(ScheduleScore.suggestedSwaps[i]) \cap HardestSelected # {}

\* The first available course, in list order, with difficulty below 0.5 that
\* is not selected.
FirstCandidate ==
  LET idx == { j \in DOMAIN availableCourses :
                 /\ availableCourses[j].difficultyIndex < 5
                 /\ ~IsSelected(availableCourses[j].code, selectedCourses) }
  IN  IF idx = {} THEN ""
      ELSE availableCourses[CHOOSE j \in idx : \A k \in idx : j <= k].code

\* C13 (amended)  Whenever a swap is suggested there is exactly one suggestion;
\*      it reads "Consider replacing a difficult course with <code>", where
\*      <code> is the first available course with difficulty below 0.5 that is
\*      not selected, and it names no selected course.
C13_NamesCandidateOnly ==
  ScheduleScore.suggestedSwaps # <<>> =>
    /\ Len(ScheduleScore.suggestedSwaps) = 1
    /\ ScheduleScore.suggestedSwaps[1]
         = <<"Consider replacing a difficult course with ", FirstCandidate>>
    /\ \A i \in DOMAIN selectedCourses :
         selectedCourses[i].code \notin Range(ScheduleScore.suggestedSwaps[1])

\* A swap is suggested for a selection that has a single hardest course.
C13_Witness ==
  /\ ScheduleScore.suggestedSwaps # <<>>
  /\ Cardinality(HardestSelected) = 1
  /\ Len(selectedCourses) >= 2

\* --------------------------------------------------------------------------
\* The warnings that calculateScheduleScore pushes together with a penalty.
PenaltyWarnings ==
  { "Credit overload: Consider reducing to 15-18 credits",
    "High credit load: Monitor workload carefully",
    "Too many lab courses: Consider moving one to next semester",
    "Heavy quant load: Balance with non-quantitative courses",
    "Very challenging schedule: Consider balancing difficulty" }

\* What the evaluation reports besides the penalty warnings.
AdvisoryNotes(result) == Range(result.warnings) \ PenaltyWarnings

\* C14  For every non-empty selection whose total credits are below 12 the
\*      evaluation carries a separate advisory note (non-full-time status),
\*      and the note costs no points: the credit check leaves the score
\*      untouched.
C14_BelowFullTimeNote ==
  (selectedCourses # <<>> /\ TotalCredits(selectedCourses) < 12) =>
    /\ AdvisoryNotes(ScheduleScore) # {}
    /\ CreditStep([score |-> 100, warnings |-> <<>>],
                  TotalCredits(selectedCourses)).score = 100

\* --------------------------------------------------------------------------
\* The number of upper-level (300 or 400) courses of a list.
UpperLevelCount(courses) ==
  Cardinality({ i \in DOMAIN courses : courses[i].level >= 300 })

\* C15  The courses of the term (enrolled and planned, all of selectedCourses)
\*      carry a "heavy upper-level load" warning, a warning of its own besides
\*      the penalty warnings, exactly when 4 or more of them are upper-level.
C15_HeavyUpperLevelWarning ==
  (UpperLevelCount(selectedCourses) >= 4)
    <=> (AdvisoryNotes(ScheduleScore) # {})

\* --------------------------------------------------------------------------
\* The prerequisite codes of a course that the student is enrolled in this
\* term (in progress) without having completed them.
InProgressPrereqs(course) ==
  { selectedCourses[i].code : i \in
      { j \in DOMAIN selectedCourses :
          /\ selectedCourses[j].status = "enrolled"
          /\ selectedCourses[j].code \in Range(course.prereqs)
          /\ selectedCourses[j].code \notin completedCodes } }

\* C16  A prerequisite the student is merely enrolled in never counts as
\*      satisfied: no course is planned on the strength of a prerequisite that
\*      is in progress and not completed.
C16_InProgressNeverSatisfies ==
  \A i \in DOMAIN selectedCourses :
    selectedCourses[i].status = "planned"
      => InProgressPrereqs(selectedCourses[i]) = {}

(***************************************************************************)
(* The prerequisite resolver behind GET /api/courses/{code}/prerequisite-  *)
(* chain.  transitive_chain(course, catalog) walks the CourseRef edges     *)
(* depth first, one edge per step, with the active path kept as a stack of *)
(* frames [course, next]: next is the position of the prerequisite of      *)
(* course that is looked at next.                                          *)
(***************************************************************************)
\* Largest number of prerequisites a catalog course lists.
MaxPrereqs == 2

ChainCourses == {"BUAD 101", "BUAD 203", "BUAD 317"}

\* Prerequisite lists: no code twice in one list.
PrereqLists ==
  { s \in UNION { [1..n -> ChainCourses] : n \in 0..MaxPrereqs } :
      \A i, j \in DOMAIN s : s[i] = s[j] => i = j }

\* Catalogs, cyclic ones included: every course with its prerequisite list.
Catalogs == [ChainCourses -> PrereqLists]

BuilderIdle ==
  /\ availableCourses = <<>>
  /\ selectedCourses = <<>>
  /\ completedCodes = {}
  /\ isUsingBackend = FALSE
  /\ lastOp = [name |-> "mount", code |-> ""]

InitChain ==
  /\ BuilderIdle
  /\ PagesIdle
  /\ resolver = ResolverIdle
  /\ advisor = AdvisorIdle
  /\ proxy = ProxyIdle

\* The courses of the active depth-first path.
ActivePath(stack) == { stack[i].course : i \in DOMAIN stack }

\* Visit that looks for the course among those already returned before it
\* looks at the active path.
VisitSeenFirst(p, stack, chain) ==
  IF p \in Range(chain) THEN "seen"
  ELSE IF p \in ActivePath(stack) THEN "cycle"
  ELSE "new"

\* What the walk finds at a prerequisite p: a course of the active path
\* closes a cycle, a course already in the chain is not walked again.
Visit(p, stack, chain) ==
  IF p \in ActivePath(stack) THEN "cycle"
  ELSE IF p \in Range(chain) THEN "seen"
  ELSE "new"

Top(stack) == stack[Len(stack)]

Pop(stack) == SubSeq(stack, 1, Len(stack) - 1)

Advance(stack) ==
  [stack EXCEPT ![Len(stack)] = [@ EXCEPT !.next = @ + 1]]

\* The prerequisite the top frame looks at, or "" when the frame is finished.
NextPrereq(r) ==
  LET top == Top(r.stack)
  IN  IF top.next > Len(r.catalog[top.course]) THEN ""
      ELSE r.catalog[top.course][top.next]

transitive_chain(course, catalog) ==
  /\ resolver.status = "idle"
  /\ resolver' = [catalog |-> catalog, course |-> course,
                  stack |-> << [course |-> course, next |-> 1] >>,
                  chain |-> <<>>, status |-> "running", repeated |-> "",
                  steps |-> 0]
  /\ UNCHANGED chainRest

\* A prerequisite seen for the first time joins the chain and is walked.
ChainDescend ==
  /\ resolver.status = "running"
  /\ NextPrereq(resolver) # ""
  /\ Visit(NextPrereq(resolver), resolver.stack, resolver.chain) = "new"
  /\ resolver' =
       [resolver EXCEPT
          !.chain = Append(@, NextPrereq(resolver)),
          !.stack = Append(Advance(@),
                           [course |-> NextPrereq(resolver), next |-> 1]),
          !.steps = @ + 1]
  /\ UNCHANGED chainRest

\* A prerequisite already in the chain is passed over.
ChainSkip ==
  /\ resolver.status = "running"
  /\ NextPrereq(resolver) # ""
  /\ Visit(NextPrereq(resolver), resolver.stack, resolver.chain) = "seen"
  /\ resolver' = [resolver EXCEPT !.stack = Advance(@), !.steps = @ + 1]
  /\ UNCHANGED chainRest

\* A prerequisite on the active path: the walk fails, naming it.
ChainCycle ==
  /\ resolver.status = "running"
  /\ NextPrereq(resolver) # ""
  /\ Visit(NextPrereq(resolver), resolver.stack, resolver.chain) = "cycle"
  /\ resolver' =
       [resolver EXCEPT
          !.status = "MalformedPrerequisiteGraph",
          !.repeated = NextPrereq(resolver),
          !.chain = <<>>,
          !.steps = @ + 1]
  /\ UNCHANGED chainRest

\* A course whose prerequisites are all looked at leaves the active path; the
\* walk is done when the asked course leaves it.
ChainReturn ==
  /\ resolver.status = "running"
  /\ NextPrereq(resolver) = ""
  /\ resolver' =
       [resolver EXCEPT
          !.stack = Pop(@),
          !.status = IF Len(resolver.stack) = 1 THEN "done" ELSE @,
          !.steps = @ + 1]
  /\ UNCHANGED chainRest

NextChain ==
  \/ \E course \in ChainCourses, catalog \in Catalogs :
       transitive_chain(course, catalog)
  \/ ChainDescend
  \/ ChainSkip
  \/ ChainCycle
  \/ ChainReturn

SpecChain == InitChain /\ [][NextChain]_vars

\* --------------------------------------------------------------------------
\* The courses reachable from the set S over prerequisite edges, S included.
RECURSIVE Closure(_, _)
Closure(catalog, S) ==
  LET T == S \cup UNION { Range(catalog[c]) : c \in S }
  IN  IF T = S THEN S ELSE Closure(catalog, T)

\* The prerequisites of a course, direct and indirect.
ReachablePrereqs(catalog, course) == Closure(catalog, Range(catalog[course]))

OnCycle(catalog, course) == course \in ReachablePrereqs(catalog, course)

\* Some cycle can be reached from the course.
CycleReachable(catalog, course) ==
  \E c \in {course} \cup ReachablePrereqs(catalog, course) : OnCycle(catalog, c)

\* First-seen pre-order: the prerequisites refs walked in list order, each
\* followed by its own prerequisites, courses already in acc left out.
RECURSIVE PreOrder(_, _, _)
PreOrder(catalog, refs, acc) ==
  IF refs = <<>> THEN acc
  ELSE IF Head(refs) \in Range(acc)
       THEN PreOrder(catalog, Tail(refs), acc)
       ELSE PreOrder(catalog, Tail(refs),
                     PreOrder(catalog, catalog[Head(refs)],
                              Append(acc, Head(refs))))

NoDuplicates(seq) == \A i, j \in DOMAIN seq : seq[i] = seq[j] => i = j

\* No walk takes more steps than one per prerequisite entry and one return
\* per course.
StepBound == Cardinality(ChainCourses) * (MaxPrereqs + 1)

\* C17  transitive_chain returns every reachable prerequisite at most once,
\*      in first-seen pre-order; on any cycle reachable from the course it
\*      ends with MalformedPrerequisiteGraph naming a course of the cycle,
\*      never with a list; and it always ends: a step is possible until an
\*      outcome is reached and no walk exceeds StepBound steps.
C17_TransitiveChain ==
  /\ NoDuplicates(resolver.chain)
  /\ resolver.steps <= StepBound
  /\ resolver.status = "running" => resolver.stack # <<>>
  /\ resolver.status = "done" =>
       /\ ~CycleReachable(resolver.catalog, resolver.course)
       /\ Range(resolver.chain)
            = ReachablePrereqs(resolver.catalog, resolver.course)
       /\ resolver.chain
            = PreOrder(resolver.catalog, resolver.catalog[resolver.course], <<>>)
  /\ resolver.status = "MalformedPrerequisiteGraph" =>
       /\ OnCycle(resolver.catalog, resolver.repeated)
       /\ resolver.repeated
            \in {resolver.course}
                  \cup ReachablePrereqs(resolver.catalog, resolver.course)
  /\ (resolver.status \in {"done", "MalformedPrerequisiteGraph"}
        /\ CycleReachable(resolver.catalog, resolver.course))
       => resolver.status = "MalformedPrerequisiteGraph"

\* BUAD 203 requires BUAD 317 and BUAD 317 requires BUAD 203: the chain of
\* BUAD 101, which requires BUAD 203, ends with the error naming BUAD 203.
C17_Witness ==
  /\ resolver.status = "MalformedPrerequisiteGraph"
  /\ resolver.course = "BUAD 101"
  /\ resolver.catalog["BUAD 101"] = <<"BUAD 203">>
  /\ resolver.catalog["BUAD 203"] = <<"BUAD 317">>
  /\ resolver.catalog["BUAD 317"] = <<"BUAD 203">>
  /\ resolver.repeated = "BUAD 203"

(***************************************************************************)
(* The advisor portal: AdvisorDashboard shows AdviseeList until an advisee *)
(* is selected and AdviseeDetail of the selected advisee afterwards.       *)
(***************************************************************************)
\* Largest number of advisees of an advisor.
MaxAdvisees == 2

UpperCaseLetters ==
  <<"A", "B", "C", "D", "E", "F", "G", "H", "I", "J", "K", "L", "M",
    "N", "O", "P", "Q", "R", "S", "T", "U", "V", "W", "X", "Y", "Z">>

LowerCaseLetters ==
  <<"a", "b", "c", "d", "e", "f", "g", "h", "i", "j", "k", "l", "m",
    "n", "o", "p", "q", "r", "s", "t", "u", "v", "w", "x", "y", "z">>

\* String.prototype.toLowerCase on a string of ASCII characters.
toLowerCase(s) ==
  [i \in DOMAIN s |->
     IF \E k \in 1..26 : UpperCaseLetters[k] = s[i]
     THEN LowerCaseLetters[CHOOSE k \in 1..26 : UpperCaseLetters[k] = s[i]]
     ELSE s[i]]

\* String.prototype.includes: q occurs in s as a substring.
includes(s, q) ==
  \E i \in 0..(Len(s) - Len(q)) : SubSeq(s, i + 1, i + Len(q)) = q

RiskFlagSets ==
  [overloadRisk : BOOLEAN, missingPrereqs : BOOLEAN, gpaDip : BOOLEAN]

AdviseeNames ==
  << <<"A", "d", "a">>, <<"B", "e", "n">>, <<"C", "y">>, <<"D", "e", "e">> >>

AdviseeEmails ==
  << <<"a", "l", "@", "w", "m">>, <<"b", "k", "@", "w", "m">>,
     <<"c", "y", "@", "w", "m">>, <<"d", "e", "@", "w", "m">> >>

\* The i-th advisee of the advisor, with the given risk flags; every other
\* advisee has declared a major.
Advisee(i, riskFlags) ==
  [id |-> i, name |-> AdviseeNames[i], email |-> AdviseeEmails[i],
   declared |-> (i % 2 = 1), riskFlags |-> riskFlags]

\* mockAdvisees: any list of up to MaxAdvisees advisees.
AdviseeLists ==
  UNION { { [i \in 1..n |-> Advisee(i, f[i])] : f \in [1..n -> RiskFlagSets] }
            : n \in 1..MaxAdvisees }

SearchInputs == { <<>>, <<"A">>, <<"e", "n">>, <<"w", "m">>, <<"z">> }

InitAdvisor ==
  /\ BuilderIdle
  /\ PagesIdle
  /\ resolver = ResolverIdle
  /\ proxy = ProxyIdle
  /\ advisor \in [advisees : AdviseeLists, searchQuery : {<<>>},
                  filter : {"all"}, selectedAdvisee : {0}]

\* Object.values(advisee.riskFlags).some(flag => flag)
hasRisks(advisee) ==
  \E k \in DOMAIN advisee.riskFlags : advisee.riskFlags[k]

\* getRiskIcons in which a raised flag keeps the later ones from showing.
getRiskIconsFirstOnly(advisee) ==
  IF advisee.riskFlags.overloadRisk THEN <<"Overload Risk">>
  ELSE IF advisee.riskFlags.missingPrereqs THEN <<"Missing Prerequisites">>
  ELSE IF advisee.riskFlags.gpaDip THEN <<"GPA Decline">>
  ELSE <<>>

\* The aria-labels of the icons getRiskIcons returns, in order.
getRiskIcons(advisee) ==
  (IF advisee.riskFlags.overloadRisk THEN <<"Overload Risk">> ELSE <<>>)
    \o (IF advisee.riskFlags.missingPrereqs
        THEN <<"Missing Prerequisites">> ELSE <<>>)
    \o (IF advisee.riskFlags.gpaDip THEN <<"GPA Decline">> ELSE <<>>)

\* The titles of the alerts of the Risk Alerts card of AdviseeDetail; the
\* card is rendered only when hasRisks.
RiskAlerts(advisee) ==
  IF hasRisks(advisee)
  THEN (IF advisee.riskFlags.overloadRisk THEN <<"Overload Risk">> ELSE <<>>)
         \o (IF advisee.riskFlags.missingPrereqs
             THEN <<"Missing Prerequisites">> ELSE <<>>)
         \o (IF advisee.riskFlags.gpaDip THEN <<"GPA Decline">> ELSE <<>>)
  ELSE <<>>

matchesSearch(advisee, searchQuery) ==
  \/ includes(toLowerCase(advisee.name), toLowerCase(searchQuery))
  \/ includes(toLowerCase(advisee.email), toLowerCase(searchQuery))

filteredAdvisees(advisees, searchQuery, filter) ==
  SelectSeq(advisees,
            LAMBDA a : /\ matchesSearch(a, searchQuery)
                       /\ filter = "at-risk" => hasRisks(a)
                       /\ filter = "undeclared" => ~a.declared)

atRiskCount(advisees) == Len(SelectSeq(advisees, hasRisks))

\* The list is on screen only while no advisee is selected.
setSearchQuery(q) ==
  /\ advisor.selectedAdvisee = 0
  /\ advisor' = [advisor EXCEPT !.searchQuery = q]
  /\ UNCHANGED advisorRest

setFilter(f) ==
  /\ advisor.selectedAdvisee = 0
  /\ advisor' = [advisor EXCEPT !.filter = f]
  /\ UNCHANGED advisorRest

\* A click on a row of the list: the list is unmounted and its search and
\* filter are gone with it.
onSelectAdvisee(a) ==
  /\ advisor.selectedAdvisee = 0
  /\ advisor' = [advisor EXCEPT !.selectedAdvisee = a.id,
                                !.searchQuery = <<>>, !.filter = "all"]
  /\ UNCHANGED advisorRest

\* "Back to Advisee List": setSelectedAdvisee(null).
backToList ==
  /\ advisor.selectedAdvisee # 0
  /\ advisor' = [advisor EXCEPT !.selectedAdvisee = 0]
  /\ UNCHANGED advisorRest

NextAdvisor ==
  \/ \E q \in SearchInputs : setSearchQuery(q)
  \/ \E f \in {"all", "at-risk", "undeclared"} : setFilter(f)
  \/ \E i \in DOMAIN filteredAdvisees(advisor.advisees, advisor.searchQuery,
                                       advisor.filter) :
       onSelectAdvisee(filteredAdvisees(advisor.advisees, advisor.searchQuery,
                                        advisor.filter)[i])
  \/ backToList

SpecAdvisor == InitAdvisor /\ [][NextAdvisor]_vars

\* --------------------------------------------------------------------------
\* The labels of the risk flags of an advisee that are true.
TrueFlagLabels(advisee) ==
  (IF advisee.riskFlags.overloadRisk THEN {"Overload Risk"} ELSE {})
    \cup (IF advisee.riskFlags.missingPrereqs
          THEN {"Missing Prerequisites"} ELSE {})
    \cup (IF advisee.riskFlags.gpaDip THEN {"GPA Decline"} ELSE {})

ShowsExactly(labels, advisee) ==
  /\ Range(labels) = TrueFlagLabels(advisee)
  /\ Len(labels) = Cardinality(TrueFlagLabels(advisee))

\* C18  The three risk flags are reported independently: for every advisee,
\*      whatever the combination of its flags, the list row and the detail
\*      view each show one indicator for exactly the flags that are true; the
\*      advisee is counted as at-risk, and kept by the at-risk filter, if and
\*      only if at least one flag is true.
C18_FlagsIndependent ==
  /\ \A i \in DOMAIN advisor.advisees :
       /\ ShowsExactly(getRiskIcons(advisor.advisees[i]), advisor.advisees[i])
       /\ ShowsExactly(RiskAlerts(advisor.advisees[i]), advisor.advisees[i])
  /\ atRiskCount(advisor.advisees)
       = Cardinality({ i \in DOMAIN advisor.advisees :
                         TrueFlagLabels(advisor.advisees[i]) # {} })
  /\ advisor.filter = "at-risk" =>
       Range(filteredAdvisees(advisor.advisees, advisor.searchQuery,
                              advisor.filter))
         = { advisor.advisees[i] : i \in
               { j \in DOMAIN advisor.advisees :
                   /\ TrueFlagLabels(advisor.advisees[j]) # {}
                   /\ matchesSearch(advisor.advisees[j], advisor.searchQuery) } }

\* The detail view of an advisee with all three flags raised is open; the
\* advisor's other advisee has the GPA flag only.
C18_Witness ==
  /\ advisor.selectedAdvisee = 1
  /\ Len(RiskAlerts(advisor.advisees[1])) = 3
  /\ Len(advisor.advisees) = 2
  /\ getRiskIcons(advisor.advisees[2]) = <<"GPA Decline">>

(***************************************************************************)
(* The proxy routes /api/courses, /api/courses/search,                     *)
(* /api/courses/[courseCode], /api/subjects and /api/term.  A handler runs *)
(* from its request to its response in one step; the catalog backend's     *)
(* answer to the forwarded call is an input of the step.                   *)
(***************************************************************************)
\* The characters of the strings that the routes search and compare.
Chars ==
  "BUAD 203" :> <<"B", "U", "A", "D", " ", "2", "0", "3">> @@
  "Accounting" :> <<"A", "c", "c", "o", "u", "n", "t", "i", "n", "g">> @@
  "CHEM 305" :> <<"C", "H", "E", "M", " ", "3", "0", "5">> @@
  "Chemistry" :> <<"C", "h", "e", "m", "i", "s", "t", "r", "y">> @@
  "MATH 211" :> <<"M", "A", "T", "H", " ", "2", "1", "1">> @@
  "Calculus" :> <<"C", "a", "l", "c", "u", "l", "u", "s">> @@
  "STAT 350" :> <<"S", "T", "A", "T", " ", "3", "5", "0">> @@
  "Statistics" :> <<"S", "t", "a", "t", "i", "s", "t", "i", "c", "s">> @@
  "BUAD 101" :> <<"B", "U", "A", "D", " ", "1", "0", "1">> @@
  "Business" :> <<"B", "u", "s", "i", "n", "e", "s", "s">> @@
  "MATH 302" :> <<"M", "A", "T", "H", " ", "3", "0", "2">> @@
  "Algebra" :> <<"A", "l", "g", "e", "b", "r", "a">> @@
  "BUAD 317" :> <<"B", "U", "A", "D", " ", "3", "1", "7">> @@
  "Finance" :> <<"F", "i", "n", "a", "n", "c", "e">> @@
  "BUAD 350" :> <<"B", "U", "A", "D", " ", "3", "5", "0">> @@
  "STAT 410" :> <<"S", "T", "A", "T", " ", "4", "1", "0">> @@
  "INTR TBA" :> <<"I", "N", "T", "R", " ", "T", "B", "A">>

\* course.title of the mock courses.
MockTitle ==
  "BUAD 203" :> "Accounting" @@
  "CHEM 305" :> "Chemistry" @@
  "MATH 211" :> "Calculus" @@
  "STAT 350" :> "Statistics" @@
  "BUAD 101" :> "Business" @@
  "MATH 302" :> "Algebra" @@
  "BUAD 317" :> "Finance"

\* mockAvailableCourses
mockAvailableCourses == CatalogCourses

\* How the forwarded call can end: fetch rejects, the backend answers with a
\* non-OK status, response.json() rejects, the parsed body lacks what the
\* adapter reads (adaptCourse throws), or the backend answers as documented.
BackendOutcomes == {"throws", "notOk", "badJson", "unadaptable", "ok"}

MockError == "Using mock data - backend unavailable"

Default(param, default) == IF param = <<>> THEN default ELSE param

\* Array.prototype.slice(start, end) with 0 <= start.
Slice(seq, start, end) ==
  IF start >= Len(seq) THEN <<>>
  ELSE SubSeq(seq, start + 1, Min(Len(seq), Max(start, end)))

\* The catalog backend's GET /api/courses as documented: the courses of the
\* subject, limit of them from offset on, total counting all of the subject.
BackendCourseList(subject, limit, offset) ==
  LET ofSubject == SelectSeq(BackendCourses,
                             LAMBDA c : subject = "" \/ c.subject_code = subject)
      from == IntOrZero(ParseInt(offset))
  IN  [courses |-> Slice(ofSubject, from, from + IntOrZero(ParseInt(limit))),
       total |-> Len(ofSubject), term_code |-> "202609"]

\* Bodies the backend's search answers with.
BackendSearchBodies(q) ==
  { [results |-> SubSeq(BackendCourses, 1, n), total |-> n, query |-> q]
      : n \in 0..2 }

BackendHasCourse(courseCode) ==
  \E i \in DOMAIN BackendCourses :
    Chars[BackendCourses[i].course_code] = courseCode

BackendCourse(courseCode) ==
  BackendCourses[CHOOSE i \in DOMAIN BackendCourses :
                   Chars[BackendCourses[i].course_code] = courseCode]

\* GET of /api/courses (route.ts).
CoursesResponse(request, outcome) ==
  IF outcome = "ok"
  THEN LET data == BackendCourseList(request.subject,
                                     Default(request.limit, <<"1", "0", "0">>),
                                     Default(request.offset, <<"0">>))
       IN  Response(200, "true", "", adaptCourses(data.courses), data.total,
                    data.term_code, <<>>)
  ELSE Response(200, "false", MockError, mockAvailableCourses,
                Len(mockAvailableCourses), "MOCK", <<>>)

\* The mock search of /api/courses/search.
SearchMock(query) ==
  SelectSeq(mockAvailableCourses,
            LAMBDA course :
              \/ includes(toLowerCase(Chars[course.code]), toLowerCase(query))
              \/ includes(toLowerCase(Chars[MockTitle[course.code]]),
                          toLowerCase(query)))

\* SearchResponse whose fallback reports the size of the returned page as
\* total.
SearchResponseTotalOfPage(request, outcome, data) ==
  IF outcome = "ok"
  THEN Response(200, "true", "", adaptCourses(data.results), data.total, "",
                data.query)
  ELSE LET filteredCourses == SearchMock(request.q)
           limit == Default(request.limit, <<"2", "0">>)
           page == Slice(filteredCourses, 0, IntOrZero(ParseInt(limit)))
       IN  Response(200, "false", MockError, page, Len(page), "", request.q)

\* GET of /api/courses/search (search/route.ts), for a request with q.
SearchResponse(request, outcome, data) ==
  IF outcome = "ok"
  THEN Response(200, "true", "", adaptCourses(data.results), data.total, "",
                data.query)
  ELSE LET filteredCourses == SearchMock(request.q)
           limit == Default(request.limit, <<"2", "0">>)
       IN  Response(200, "false", MockError,
                    Slice(filteredCourses, 0, IntOrZero(ParseInt(limit))),
                    Len(filteredCourses), "", request.q)

\* String.prototype.replace('-', ' '): the first '-' becomes a blank.
ReplaceFirstDash(s) ==
  IF \E i \in DOMAIN s : s[i] = "-"
  THEN [s EXCEPT ![CHOOSE i \in DOMAIN s :
                     s[i] = "-" /\ \A j \in 1..(i - 1) : s[j] # "-"] = " "]
  ELSE s

\* findMockCourse comparing the requested code as it is given only.
findMockCourseExact(courseCode) ==
  SelectSeq(mockAvailableCourses, LAMBDA c : Chars[c.code] = courseCode)

\* mockAvailableCourses.find(...): the matching courses in list order, the
\* first of which find returns.
findMockCourse(courseCode) ==
  SelectSeq(mockAvailableCourses,
            LAMBDA c : \/ Chars[c.code] = courseCode
                       \/ Chars[c.code] = ReplaceFirstDash(courseCode))

\* GET of /api/courses/[courseCode] ([courseCode]/route.ts).
CourseResponseOf(request, outcome) ==
  IF outcome = "ok"
  THEN Response(200, "true", "",
                <<adaptCourse(BackendCourse(request.courseCode))>>, 0, "", <<>>)
  ELSE IF findMockCourse(request.courseCode) # <<>>
  THEN Response(200, "false", MockError,
                <<findMockCourse(request.courseCode)[1]>>, 0, "", <<>>)
  ELSE Response(404, "absent", "Course not found", <<>>, 0, "", <<>>)

mockSubjects == <<"BUS", "CSCI", "ECON", "MATH", "STAT", "ACCT", "FINC">>

BackendSubjects == <<"BUAD", "INTR", "MATH", "STAT">>

\* SubjectsResponse whose fallback carries no error text.
SubjectsResponseSilent(outcome) ==
  IF outcome = "ok"
  THEN Response(200, "true", "", BackendSubjects, Len(BackendSubjects), "", <<>>)
  ELSE Response(200, "false", "", mockSubjects, Len(mockSubjects), "", <<>>)

\* GET of /api/subjects (subjects/route.ts).
SubjectsResponse(outcome) ==
  IF outcome = "ok"
  THEN Response(200, "true", "", BackendSubjects, Len(BackendSubjects), "", <<>>)
  ELSE Response(200, "false", MockError, mockSubjects, Len(mockSubjects), "",
                <<>>)

\* GET of /api/term (term/route.ts): the term info is kept as the term
\* code of current.
TermResponse(outcome) ==
  IF outcome = "ok"
  THEN Response(200, "true", "", <<"202609">>, 0, "202609", <<>>)
  ELSE Response(200, "false", MockError, <<"202602">>, 0, "202602", <<>>)

SubjectInputs == {"", "BUAD", "MATH", "CSCI"}

LimitInputs == { <<>>, <<"1">>, <<"2">>, <<"x">> }

OffsetInputs == { <<>>, <<"0">>, <<"1">> }

QueryInputs == { <<>>, <<"b", "u", "a", "d">>, <<"C", "A", "L", "C">>,
                 <<"3">>, <<"z", "z">> }

CourseCodeInputs ==
  { Chars["BUAD 101"], <<"B", "U", "A", "D", "-", "1", "0", "1">>,
    Chars["BUAD 350"], Chars["MATH 302"],
    <<"C", "S", "C", "I", " ", "1", "4", "1">> }

InitProxy ==
  /\ BuilderIdle
  /\ PagesIdle
  /\ resolver = ResolverIdle
  /\ advisor = AdvisorIdle
  /\ proxy = ProxyIdle

\* A route takes one request at a time from the client modelled here.
Responded(route, request, outcome, called, response) ==
  /\ proxy.status = "idle"
  /\ proxy' = [status |-> "responded", route |-> route, request |-> request,
               backend |-> outcome, backendCalled |-> called,
               response |-> response]
  /\ UNCHANGED proxyRest

\* The backend answers OK only to a limit that is a number.
GET_courses(subject, limit, offset, outcome) ==
  LET request == Request(subject, limit, offset, <<>>, <<>>)
  IN  /\ outcome = "ok" => (limit = <<>> \/ ParseInt(limit) # IntNaN)
      /\ Responded("/api/courses", request, outcome, TRUE,
                   CoursesResponse(request, outcome))

\* Without q the route answers 400 before it calls anything.
GET_courses_search_noQuery(limit) ==
  Responded("/api/courses/search", Request("", limit, <<>>, <<>>, <<>>), "",
            FALSE,
            Response(400, "absent", "Query parameter \"q\" is required",
                     <<>>, 0, "", <<>>))

GET_courses_search(q, limit, outcome, data) ==
  LET request == Request("", limit, <<>>, q, <<>>)
  IN  /\ q # <<>>
      /\ Responded("/api/courses/search", request, outcome, TRUE,
                   SearchResponse(request, outcome, data))

\* The backend answers OK only for a course it has.
GET_courses_courseCode(courseCode, outcome) ==
  LET request == Request("", <<>>, <<>>, <<>>, courseCode)
  IN  /\ outcome = "ok" => BackendHasCourse(courseCode)
      /\ Responded("/api/courses/[courseCode]", request, outcome, TRUE,
                   CourseResponseOf(request, outcome))

\* These two routes adapt nothing.
GET_subjects(outcome) ==
  /\ outcome # "unadaptable"
  /\ Responded("/api/subjects", Request("", <<>>, <<>>, <<>>, <<>>), outcome,
               TRUE, SubjectsResponse(outcome))

GET_term(outcome) ==
  /\ outcome # "unadaptable"
  /\ Responded("/api/term", Request("", <<>>, <<>>, <<>>, <<>>), outcome,
               TRUE, TermResponse(outcome))

\* The client has read the response; the next request can be made.
Deliver ==
  /\ proxy.status = "responded"
  /\ proxy' = ProxyIdle
  /\ UNCHANGED proxyRest

NextProxy ==
  \/ \E subject \in SubjectInputs, limit \in LimitInputs,
        offset \in OffsetInputs, outcome \in BackendOutcomes :
       GET_courses(subject, limit, offset, outcome)
  \/ \E limit \in LimitInputs : GET_courses_search_noQuery(limit)
  \/ \E q \in QueryInputs, limit \in LimitInputs, outcome \in BackendOutcomes :
       \E data \in BackendSearchBodies(q) :
         GET_courses_search(q, limit, outcome, data)
  \/ \E courseCode \in CourseCodeInputs, outcome \in BackendOutcomes :
       GET_courses_courseCode(courseCode, outcome)
  \/ \E outcome \in BackendOutcomes : GET_subjects(outcome)
  \/ \E outcome \in BackendOutcomes : GET_term(outcome)
  \/ Deliver

SpecProxy == InitProxy /\ [][NextProxy]_vars

\* --------------------------------------------------------------------------
\* The payload of the response is mock data of the route.
CarriesMockData ==
  /\ proxy.route \in {"/api/courses", "/api/courses/search",
                      "/api/courses/[courseCode]"}
       => Range(proxy.response.items) \subseteq Range(mockAvailableCourses)
  /\ proxy.route = "/api/courses" => proxy.response.items # <<>>
  /\ proxy.route = "/api/courses/[courseCode]" => Len(proxy.response.items) = 1
  /\ proxy.route = "/api/subjects" => proxy.response.items = mockSubjects
  /\ proxy.route = "/api/term" => proxy.response.term_code = "202602"

MockFallback ==
  /\ proxy.response.status = 200
  /\ proxy.response.isFromBackend = "false"
  /\ proxy.response.error = MockError
  /\ CarriesMockData

\* A well-formed request whose backend call failed has been answered.
AnsweredAfterFailure ==
  /\ proxy.status = "responded"
  /\ proxy.backendCalled
  /\ proxy.backend # "ok"

IsMockCode(courseCode) ==
  \E i \in DOMAIN mockAvailableCourses :
    Chars[mockAvailableCourses[i].code]
      \in {courseCode, ReplaceFirstDash(courseCode)}

RequestedPage(courses, request) ==
  LET ofSubject == SelectSeq(courses,
                             LAMBDA c : request.subject = ""
                                        \/ c.dept = request.subject)
      limit == ParseInt(Default(request.limit, <<"1", "0", "0">>))
      offset == ParseInt(Default(request.offset, <<"0">>))
  IN  Slice(ofSubject, offset, offset + limit)

\* C20  Every response of GET /api/courses to a request with numeric limit
\*      and offset honours the query parameters, the mock fallback included:
\*      only courses of the given subject, at most limit of them (default
\*      100), starting at offset.
C20_HonoursQueryParameters ==
  (/\ proxy.status = "responded"
   /\ proxy.route = "/api/courses"
   /\ ParseInt(Default(proxy.request.limit, <<"1", "0", "0">>)) # IntNaN)
  => /\ proxy.request.subject # "" =>
          \A i \in DOMAIN proxy.response.items :
            proxy.response.items[i].dept = proxy.request.subject
     /\ Len(proxy.response.items)
          <= ParseInt(Default(proxy.request.limit, <<"1", "0", "0">>))
     /\ proxy.response.items
          = RequestedPage(IF proxy.response.isFromBackend = "true"
                          THEN adaptCourses(BackendCourses)
                          ELSE mockAvailableCourses,
                          proxy.request)

\* --------------------------------------------------------------------------
\* q occurs in s at some position, letters compared without regard to case.
ContainsIgnoringCase(s, q) ==
  \E at \in 0..(Len(s) - Len(q)) :
    \A k \in 1..Len(q) : toLowerCase(<<s[at + k]>>) = toLowerCase(<<q[k]>>)

\* The positions of the mock courses whose code or title contains q.
SearchMatches(q) ==
  { i \in DOMAIN mockAvailableCourses :
      \/ ContainsIgnoringCase(Chars[mockAvailableCourses[i].code], q)
      \/ ContainsIgnoringCase(Chars[MockTitle[mockAvailableCourses[i].code]], q) }

\* The limit of a search request as a number: 20 when none is given.
SearchLimit(request) == ParseInt(Default(request.limit, <<"2", "0">>))

\* C21  GET /api/courses/search requires q: without it the route answers 400
\*      with an error, calls no backend and searches no mock data; with it,
\*      and with a limit that is a number, the mock fallback returns only
\*      mock courses whose code or title contains q without regard to case,
\*      at most limit of them, and total counts all matches.
C21_SearchRequiresQuery ==
  (proxy.status = "responded" /\ proxy.route = "/api/courses/search") =>
    IF proxy.request.q = <<>>
    THEN /\ proxy.response.status = 400
         /\ proxy.response.error # ""
         /\ ~proxy.backendCalled
         /\ proxy.response.items = <<>>
         /\ proxy.response.isFromBackend = "absent"
    ELSE (proxy.backend # "ok" /\ SearchLimit(proxy.request) # IntNaN) =>
           /\ proxy.response.status = 200
           /\ \A i \in DOMAIN proxy.response.items :
                \E j \in SearchMatches(proxy.request.q) :
                  proxy.response.items[i] = mockAvailableCourses[j]
           /\ Len(proxy.response.items)
                = Min(SearchLimit(proxy.request),
                      Cardinality(SearchMatches(proxy.request.q)))
           /\ NoDuplicates(proxy.response.items)
           /\ proxy.response.total
                = Cardinality(SearchMatches(proxy.request.q))

\* The backend is down, three mock courses match "buad" and the limit is 2:
\* two courses are returned and total is 3.
C21_Witness ==
  /\ proxy.status = "responded"
  /\ proxy.route = "/api/courses/search"
  /\ proxy.backend = "throws"
  /\ proxy.request.q = <<"b", "u", "a", "d">>
  /\ proxy.request.limit = <<"2">>
  /\ Len(proxy.response.items) = 2
  /\ proxy.response.total = 3

(***************************************************************************)
(* The student dashboard that starts from mock data (part_006): its state  *)
(* availableCourses and isUsingBackend is what it hands to the schedule    *)
(* builder; loading, the active tab and the progress of fetchCourses are   *)
(* kept in the record dashboard.  State updates made in one continuation   *)
(* of the async function are rendered together.                            *)
(***************************************************************************)
\* fetch('/api/courses?limit=200')
DashboardRequest == Request("", <<"2", "0", "0">>, <<>>, <<>>, <<>>)

\* What the route answers when the backend's catalog has no course.
EmptyBackendResponse == Response(200, "true", "", <<>>, 0, "202609", <<>>)

\* What fetch can resolve with: the route's answer for each way its backend
\* call can end, its answer for an empty catalog, and an answer whose body
\* is not JSON (cause "notJson").
DashboardResponses ==
  { [cause |-> outcome, response |-> CoursesResponse(DashboardRequest, outcome)]
      : outcome \in BackendOutcomes }
    \cup { [cause |-> "emptyBackend", response |-> EmptyBackendResponse],
           [cause |-> "notJson",
            response |-> Response(500, "absent", "", <<>>, 0, "", <<>>)] }

\* The student page is one of its two versions: the one that starts from
\* mock data, with fetchCourses under way, or the backend-driven one, mounted
\* with its effect still to run, against a backend in either condition.
InitDashboards ==
  /\ availableCourses = mockAvailableCourses
  /\ isUsingBackend = FALSE
  /\ selectedCourses = <<>>
  /\ completedCodes = {}
  /\ lastOp = [name |-> "mount", code |-> ""]
  /\ resolver = ResolverIdle
  /\ advisor = AdvisorIdle
  /\ proxy = ProxyIdle
  /\ chat = ChatIdle
  /\ closure = ClosureIdle
  /\ \/ /\ dashboard = [DashboardIdle EXCEPT !.pc = "fetching"]
        /\ backendDashboard = BackendDashboardIdle
     \/ /\ dashboard = DashboardIdle
        /\ \E backend \in {"healthy", "failing"} :
             backendDashboard =
               [BackendDashboardIdle EXCEPT !.pc = "mounted",
                                            !.backend = backend]

dashboardRest ==
  <<selectedCourses, completedCodes, lastOp, resolver, advisor, proxy,
    backendDashboard, chat, closure>>

\* fetch rejects: catch, then finally.
fetchCourses_fetchRejects ==
  /\ dashboard.pc = "fetching"
  /\ dashboard' = [dashboard EXCEPT !.pc = "done", !.cause = "fetchThrows",
                                    !.loading = FALSE]
  /\ UNCHANGED <<availableCourses, isUsingBackend, dashboardRest>>

fetchCourses_fetchResolves(r) ==
  /\ dashboard.pc = "fetching"
  /\ dashboard' = [dashboard EXCEPT !.pc = "parsing", !.cause = r.cause,
                                    !.response = r.response]
  /\ UNCHANGED <<availableCourses, isUsingBackend, dashboardRest>>

\* response.json() rejects: catch, then finally.
fetchCourses_jsonRejects ==
  /\ dashboard.pc = "parsing"
  /\ dashboard.cause = "notJson"
  /\ dashboard' = [dashboard EXCEPT !.pc = "done", !.loading = FALSE]
  /\ UNCHANGED <<availableCourses, isUsingBackend, dashboardRest>>

\* fetchCoursesResult setting isUsingBackend whenever courses were received.
fetchCoursesResultAlwaysLive(data, courses, usingBackend) ==
  IF Len(data.items) > 0
  THEN [availableCourses |-> data.items, isUsingBackend |-> TRUE]
  ELSE [availableCourses |-> courses, isUsingBackend |-> usingBackend]

\* if (data.courses && data.courses.length > 0) { setAvailableCourses(...);
\* setIsUsingBackend(data.isFromBackend || false) }
fetchCoursesResult(data, courses, usingBackend) ==
  IF Len(data.items) > 0
  THEN [availableCourses |-> data.items,
        isUsingBackend |-> (data.isFromBackend = "true")]
  ELSE [availableCourses |-> courses, isUsingBackend |-> usingBackend]

fetchCourses_jsonResolves ==
  /\ dashboard.pc = "parsing"
  /\ dashboard.cause # "notJson"
  /\ availableCourses' =
       fetchCoursesResult(dashboard.response, availableCourses,
                          isUsingBackend).availableCourses
  /\ isUsingBackend' =
       fetchCoursesResult(dashboard.response, availableCourses,
                          isUsingBackend).isUsingBackend
  /\ dashboard' = [dashboard EXCEPT !.pc = "done", !.loading = FALSE]
  /\ UNCHANGED dashboardRest

setActiveTab(tab) ==
  /\ dashboard.activeTab # tab
  /\ dashboard' = [dashboard EXCEPT !.activeTab = tab]
  /\ UNCHANGED <<availableCourses, isUsingBackend, dashboardRest>>

\* The banners and the builder as the dashboard renders them.
LiveDataBanner == ~dashboard.loading /\ isUsingBackend

DemoDataBanner == ~dashboard.loading /\ ~isUsingBackend

\* The builder shown on the schedule tab whether or not loading is over.
BuilderRenderedWhileLoading == dashboard.activeTab = "schedule"

BuilderRendered == dashboard.activeTab = "schedule" /\ ~dashboard.loading

(***************************************************************************)
(* apiRequest (lib/api-client.ts), from the response of fetch on.  A body  *)
(* is JSON or not; of a JSON body only detail and message are read, and an *)
(* absent field, like an empty one, is the empty string (both are falsy).  *)
(* A JSON body that is no object has neither field.                        *)
(***************************************************************************)
JsonBody(detail, message) ==
  [json |-> TRUE, detail |-> detail, message |-> message, text |-> ""]

TextBody(text) ==
  [json |-> FALSE, detail |-> "", message |-> "", text |-> text]

Res(ok, status, statusText, body) ==
  [ok |-> ok, status |-> status, statusText |-> statusText, body |-> body]

Resolved == [kind |-> "resolved", error |-> "", status |-> 0, message |-> ""]

\* A rejection with an error of class error; for new Error(`API Error
\* ${status}: ${message}`) status and message are the two interpolated values.
Rejected(error, status, message) ==
  [kind |-> "rejected", error |-> error, status |-> status,
   message |-> message]

\* errorData?.detail || errorData?.message || message
ErrorMessage(res) ==
  IF res.body.detail # "" THEN res.body.detail
  ELSE IF res.body.message # "" THEN res.body.message
  ELSE res.statusText

\* The outcome of apiRequest for the response res.  res.json() reads the
\* body to its end before it parses; when the parse fails, the body is used
\* and res.text() in the catch block rejects with a TypeError, which leaves
\* apiRequest in place of the Error of line 33.
apiRequest(res) ==
  IF res.ok
  THEN IF res.body.json THEN Resolved
       ELSE Rejected("SyntaxError", 0, "")
  ELSE IF res.body.json
  THEN Rejected("Error", res.status, ErrorMessage(res))
  ELSE Rejected("TypeError", 0, "")

OkResponses == { Res(TRUE, 200, "OK", JsonBody("", "")) }

ErrorBodies ==
  { JsonBody(detail, message) :
      detail \in {"", "Not authenticated"}, message \in {"", "Try again"} }
    \cup { TextBody("Bad Gateway"), TextBody("") }

ErrorResponses ==
  { Res(FALSE, st[1], st[2], body) :
      st \in { <<401, "Unauthorized">>, <<404, "Not Found">>, <<502, "">> },
      body \in ErrorBodies }

\* What the backend can answer, by its condition.
ApiResponses(backend) ==
  IF backend = "healthy" THEN OkResponses
  ELSE ErrorResponses \cup { Res(TRUE, 200, "OK", TextBody("")) }

\* --------------------------------------------------------------------------
\* The backend-driven student dashboard (part_005).
\* What lib/api-client.ts exports.
ApiClientExports ==
  {"login", "logout", "getStudentProfile", "getStudentCourses",
   "getStudentProgress", "getCourseCatalog", "sendChatMessage",
   "getChatHistory", "evaluateSchedule", "getScheduleRecommendations",
   "getAdvisees", "getAdviseeDetail", "addAdvisorNote", "getAdvisorAlerts"}

backendDashboardRest ==
  <<builderVars, resolver, advisor, proxy, dashboard, chat, closure>>

\* The effect calls fetchDashboard, which builds the array for Promise.all:
\* getStudentProfile() sends its request; getCourseProgress is imported from
\* lib/api-client, which exports no such name, so the call throws a
\* TypeError before getCourseCatalog is called and before anything is
\* awaited.  The catch block sets isUsingBackend to false and the finally
\* block sets loading to false.  The lines after the await are not reached.
fetchDashboard ==
  /\ backendDashboard.pc = "mounted"
  /\ "getStudentProfile" \in ApiClientExports
  /\ "getCourseProgress" \notin ApiClientExports
  /\ backendDashboard' =
       [backendDashboard EXCEPT !.pc = "done",
                                !.profile = Call("pending", NoCall.res, NoCall.outcome),
                                !.isUsingBackend = FALSE,
                                !.loading = FALSE]
  /\ UNCHANGED backendDashboardRest

\* The backend answers the profile request; apiRequest settles a promise
\* that nothing awaits.
getStudentProfile_settles(res) ==
  /\ backendDashboard.profile.status = "pending"
  /\ backendDashboard' =
       [backendDashboard EXCEPT !.profile = Call("settled", res, apiRequest(res))]
  /\ UNCHANGED backendDashboardRest

\* The tab buttons exist once the spinner is gone.
setActiveTab_backend(tab) ==
  /\ backendDashboard.pc # "unmounted"
  /\ ~backendDashboard.loading
  /\ backendDashboard.activeTab # tab
  /\ backendDashboard' = [backendDashboard EXCEPT !.activeTab = tab]
  /\ UNCHANGED backendDashboardRest

BuilderRendered_backend ==
  ~backendDashboard.loading /\ backendDashboard.activeTab = "schedule"

NextDashboard ==
  \/ fetchCourses_fetchRejects
  \/ \E r \in DashboardResponses : fetchCourses_fetchResolves(r)
  \/ fetchCourses_jsonRejects
  \/ fetchCourses_jsonResolves
  \/ \E tab \in {"overview", "schedule", "chat"} :
       dashboard.pc # "unmounted" /\ setActiveTab(tab)
  \/ fetchDashboard
  \/ \E res \in ApiResponses(backendDashboard.backend) :
       getStudentProfile_settles(res)
  \/ \E tab \in {"overview", "schedule", "chat"} : setActiveTab_backend(tab)

SpecDashboards == InitDashboards /\ [][NextDashboard]_vars

\* The fetches settle, response.json() settles, and the effect of the mounted
\* page runs.
SpecDashboardsFair ==
  /\ SpecDashboards
  /\ WF_vars(\/ fetchCourses_fetchRejects
             \/ \E r \in DashboardResponses : fetchCourses_fetchResolves(r))
  /\ WF_vars(fetchCourses_jsonRejects \/ fetchCourses_jsonResolves)
  /\ WF_vars(fetchDashboard)

\* The course list the builder receives was taken from a route answer that
\* is flagged isFromBackend and holds at least one course.
CameFromBackend ==
  /\ dashboard.pc = "done"
  /\ dashboard.cause \in BackendOutcomes \cup {"emptyBackend"}
  /\ dashboard.response.isFromBackend = "true"
  /\ Len(dashboard.response.items) > 0
  /\ availableCourses = dashboard.response.items

\* C22: once loading has finished exactly one of the two status banners is
\* shown; the green "Live Data" banner is shown if and only if the course
\* list handed to the schedule builder came from a backend response flagged
\* isFromBackend and non-empty; otherwise the yellow banner is shown and the
\* courses are the mock courses.
C22_BannerTellsSource ==
  ~dashboard.loading =>
    /\ LiveDataBanner # DemoDataBanner
    /\ LiveDataBanner <=> CameFromBackend
    /\ DemoDataBanner => availableCourses = mockAvailableCourses

\* The builder is shown under the green banner with the backend's courses.
C22_Witness ==
  /\ LiveDataBanner
  /\ BuilderRendered
  /\ availableCourses = adaptCourses(BackendCourses)
  /\ availableCourses # mockAvailableCourses

\* --------------------------------------------------------------------------
\* The payload of the response is what the backend sent, adapted where the
\* route adapts.
CarriesBackendData ==
  /\ proxy.route \in {"/api/courses", "/api/courses/search",
                      "/api/courses/[courseCode]"}
       => Range(proxy.response.items) \subseteq Range(adaptCourses(BackendCourses))
  /\ proxy.route = "/api/courses/[courseCode]"
       => /\ Len(proxy.response.items) = 1
          /\ Chars[proxy.response.items[1].code] = proxy.request.courseCode
  /\ proxy.route = "/api/subjects" => proxy.response.items = BackendSubjects
  /\ proxy.route = "/api/term" => proxy.response.term_code = "202609"

\* C23: a response is flagged isFromBackend=true only if the backend was
\* called, answered OK and the whole payload is the backend's; every
\* response built from mock data is flagged isFromBackend=false and carries
\* the error text 'Using mock data - backend unavailable'; no response
\* mixes backend and mock payload.
C23_FlagIsTruthful ==
  proxy.status = "responded" =>
    /\ proxy.response.isFromBackend = "true"
         => /\ proxy.backendCalled
            /\ proxy.backend = "ok"
            /\ proxy.response.status = 200
            /\ proxy.response.error = ""
            /\ CarriesBackendData
    /\ (proxy.backendCalled /\ proxy.backend # "ok"
        /\ proxy.response.status = 200)
         => /\ proxy.response.isFromBackend = "false"
            /\ proxy.response.error = MockError
    /\ proxy.response.isFromBackend = "false"
         => /\ proxy.backend # "ok"
            /\ proxy.response.error = MockError
            /\ CarriesMockData
    /\ proxy.response.isFromBackend = "absent"
         => /\ proxy.response.status \in {400, 404}
            /\ proxy.response.items = <<>>

\* The backend answered /api/courses with OK and a body the adapter cannot
\* read; the route served the mock courses, flagged as mock.
C23_Witness ==
  /\ proxy.status = "responded"
  /\ proxy.route = "/api/courses"
  /\ proxy.backend = "unadaptable"
  /\ proxy.response.isFromBackend = "false"
  /\ proxy.response.items = mockAvailableCourses

\* --------------------------------------------------------------------------
\* The 'Available Courses' list: availableCourses without the courses whose
\* code is selected.
AvailableShown ==
  SelectSeq(availableCourses, LAMBDA c : ~IsSelected(c.code, selectedCourses))

NoDuplicateCodes(courses) ==
  \A i, j \in DOMAIN courses : courses[i].code = courses[j].code => i = j

\* Codes a caller can name: those of the catalog in use, those selected, and
\* one that is in neither.
NameableCodes ==
  {availableCourses[i].code : i \in DOMAIN availableCourses}
    \cup {selectedCourses[i].code : i \in DOMAIN selectedCourses}
    \cup {"CSCI 141"}

\* C24: from a currentCourses list with distinct codes, after any sequence
\* of addCourse and removeCourse calls the selected schedule holds no two
\* courses with the same code; adding a course whose code is selected and
\* removing a code that is absent leave the schedule as it is; and the
\* 'Available Courses' list shows no course whose code is selected.
C24_NoDuplicatesNoOps ==
  /\ NoDuplicateCodes(selectedCourses)
  /\ \A i \in DOMAIN availableCourses :
       IsSelected(availableCourses[i].code, selectedCourses)
         => addCourseResult(selectedCourses, availableCourses[i])
              = selectedCourses
  /\ \A code \in NameableCodes :
       ~IsSelected(code, selectedCourses)
         => removeCourseResult(selectedCourses, code) = selectedCourses
  /\ \A i \in DOMAIN AvailableShown :
       ~IsSelected(AvailableShown[i].code, selectedCourses)
  /\ \A i \in DOMAIN availableCourses :
       ~IsSelected(availableCourses[i].code, selectedCourses)
         => availableCourses[i] \in Range(AvailableShown)

\* Three courses are selected after a removal, among them the enrolled one
\* the builder started with, and the list of available courses is shorter
\* by those three.
C24_Witness ==
  /\ lastOp.name = "removeCourse"
  /\ Len(selectedCourses) = 3
  /\ selectedCourses[1].status = "enrolled"
  /\ Len(AvailableShown) = Len(availableCourses) - 3

(***************************************************************************)
(* The schedule builder with its renders made explicit.  addCourse and     *)
(* removeCourse are closures of a render: the selectedCourses they read is *)
(* the value that render captured (closure.selectedCourses), and what they *)
(* pass to setSelectedCourses replaces the state (selectedCourses).  The   *)
(* buttons that call them are those of the same render.                    *)
(***************************************************************************)
MaxPending == 2

MaxPlanned == 3

\* availableCourses handed to the builder here.
RenderedCatalog == SubSeq(mockAvailableCourses, 1, 4)

InitRenders ==
  /\ availableCourses = RenderedCatalog
  /\ selectedCourses = <<>>
  /\ completedCodes = {}
  /\ isUsingBackend = FALSE
  /\ lastOp = [name |-> "mount", code |-> ""]
  /\ resolver = ResolverIdle
  /\ advisor = AdvisorIdle
  /\ proxy = ProxyIdle
  /\ dashboard = DashboardIdle
  /\ backendDashboard = BackendDashboardIdle
  /\ chat = ChatIdle
  /\ closure = ClosureIdle

rendersRest ==
  <<availableCourses, completedCodes, isUsingBackend, resolver, advisor,
    proxy, dashboard, backendDashboard, chat>>

\* React renders the component with the state last set.
render ==
  /\ closure # [selectedCourses |-> selectedCourses, issued |-> <<>>]
  /\ closure' = [selectedCourses |-> selectedCourses, issued |-> <<>>]
  /\ UNCHANGED <<selectedCourses, lastOp, rendersRest>>

Issue(name, code) ==
  /\ Len(closure.issued) < MaxPending
  /\ closure' = [closure EXCEPT
                   !.issued = Append(@, [name |-> name, code |-> code])]
  /\ lastOp' = [name |-> name, code |-> code]

\* onClick of an 'Available Courses' button of the current render.
addCourse_rendered(course) ==
  /\ ~IsSelected(course.code, closure.selectedCourses)
  /\ Len(closure.selectedCourses) < MaxPlanned
  /\ Issue("addCourse", course.code)
  /\ selectedCourses' = addCourseResult(closure.selectedCourses, course)
  /\ UNCHANGED rendersRest

\* onClick of the remove button of a course of the current render.
removeCourse_rendered(courseCode) ==
  /\ IsSelected(courseCode, closure.selectedCourses)
  /\ Issue("removeCourse", courseCode)
  /\ selectedCourses' = removeCourseResult(closure.selectedCourses, courseCode)
  /\ UNCHANGED rendersRest

NextRenders ==
  \/ render
  \/ \E i \in DOMAIN availableCourses : addCourse_rendered(availableCourses[i])
  \/ \E i \in DOMAIN closure.selectedCourses :
       removeCourse_rendered(closure.selectedCourses[i].code)

SpecRenders == InitRenders /\ [][NextRenders]_vars

\* An edit made since the last render is in effect: an added code is
\* selected unless a later call removed it, a removed code is absent unless
\* a later call added it.
InEffect(k) ==
  LET edit == closure.issued[k]
      undone == \E l \in (k + 1)..Len(closure.issued) :
                  /\ closure.issued[l].code = edit.code
                  /\ closure.issued[l].name # edit.name
  IN  undone \/ (IsSelected(edit.code, selectedCourses)
                   <=> edit.name = "addCourse")

\* C25: no schedule edit is lost: every addCourse of a course that is not
\* selected leaves it selected and every removeCourse leaves its code
\* absent, also when a further addCourse or removeCourse is called before
\* the component has rendered again.
C25_NoEditLost == \A k \in DOMAIN closure.issued : InEffect(k)

\* With a render between any two calls every edit is in effect.
EditsInEffectWhenRendered ==
  Len(closure.issued) <= 1 => C25_NoEditLost

\* --------------------------------------------------------------------------
\* The message the error of a non-OK response is to carry: detail, else
\* message, else the status text of a JSON body; the text of any other body.
StatedMessage(res) ==
  IF res.body.json
  THEN IF res.body.detail # "" THEN res.body.detail
       ELSE IF res.body.message # "" THEN res.body.message
       ELSE res.statusText
  ELSE res.body.text

SettledNotOk ==
  /\ backendDashboard.profile.status = "settled"
  /\ ~backendDashboard.profile.res.ok

\* C26: for every backend response with a non-OK status apiRequest rejects
\* with an Error whose message is 'API Error <status>: <message>', the
\* message being the JSON body's detail field, else its message field, else
\* the status text, and the body text when the body is not JSON; no other
\* kind of error escapes.
C26_ApiErrorMessage ==
  SettledNotOk =>
    backendDashboard.profile.outcome =
      Rejected("Error", backendDashboard.profile.res.status,
               StatedMessage(backendDashboard.profile.res))

\* For the non-OK responses whose body is JSON the error is as stated.
ApiErrorOfJsonBodies ==
  (SettledNotOk /\ backendDashboard.profile.res.body.json)
    => backendDashboard.profile.outcome =
         Rejected("Error", backendDashboard.profile.res.status,
                  StatedMessage(backendDashboard.profile.res))

\* --------------------------------------------------------------------------
\* The five pieces of state fetchDashboard is to fill are as at mount.
NothingLoaded ==
  /\ backendDashboard.student = BackendDashboardIdle.student
  /\ backendDashboard.currentCourses = BackendDashboardIdle.currentCourses
  /\ backendDashboard.completedCourses = BackendDashboardIdle.completedCourses
  /\ backendDashboard.milestones = BackendDashboardIdle.milestones
  /\ backendDashboard.availableCourses = BackendDashboardIdle.availableCourses

\* C27: the backend-driven dashboard loads all or nothing: when the
\* profile, progress and catalog requests all succeed, student, current
\* courses, completed courses, milestones and available courses are set and
\* isUsingBackend is true; when one of them fails, none of the five is
\* changed and isUsingBackend is false.
C27_AllOrNothing ==
  backendDashboard.pc = "done" =>
    IF backendDashboard.backend = "healthy"
    THEN /\ backendDashboard.isUsingBackend
         /\ backendDashboard.student # BackendDashboardIdle.student
    ELSE /\ NothingLoaded
         /\ ~backendDashboard.isUsingBackend

\* Whatever the backend's condition, fetchDashboard ends with nothing loaded
\* and isUsingBackend false.
FetchDashboardLoadsNothing ==
  backendDashboard.pc = "done" =>
    NothingLoaded /\ ~backendDashboard.isUsingBackend

\* --------------------------------------------------------------------------
\* C28: in both dashboards that fetch from the backend, when the fetches
\* settle, resolved or rejected, loading eventually becomes false; once
\* false it never becomes true again; and the schedule builder is never
\* rendered while loading is true.
C28_LoadingEnds ==
  /\ (dashboard.pc # "unmounted") => <>[](~dashboard.loading)
  /\ (backendDashboard.pc # "unmounted") => <>[](~backendDashboard.loading)
  /\ [][/\ ~dashboard.loading => ~dashboard.loading'
        /\ ~backendDashboard.loading => ~backendDashboard.loading']_vars
  /\ [](BuilderRendered => ~dashboard.loading)
  /\ [](BuilderRendered_backend => ~backendDashboard.loading)

\* fetch rejected, loading is over and the builder is shown.
C28_Witness ==
  /\ dashboard.cause = "fetchThrows"
  /\ ~dashboard.loading
  /\ BuilderRendered

(***************************************************************************)
(* The chat interface (ChatInterface).  input and the content of a message *)
(* are sequences of characters.  The reply is appended by a timeout that   *)
(* handleSend sets.  The text field is disabled while isLoading, the send  *)
(* button while isLoading or when the input is blank; the quick prompts    *)
(* are never disabled.                                                     *)
(***************************************************************************)
MaxCalls == 3

WhiteSpace == {" ", "\t", "\n"}

\* String.prototype.trim
trim(s) ==
  IF \A i \in DOMAIN s : s[i] \in WhiteSpace THEN <<>>
  ELSE LET first == CHOOSE i \in DOMAIN s :
                      /\ s[i] \notin WhiteSpace
                      /\ \A j \in 1..(i - 1) : s[j] \in WhiteSpace
           last == CHOOSE i \in DOMAIN s :
                     /\ s[i] \notin WhiteSpace
                     /\ \A j \in (i + 1)..Len(s) : s[j] \in WhiteSpace
       IN  SubSeq(s, first, last)

QuickPrompts ==
  { <<"W", "h", "e", "n", " ", "s", "h", "o", "u", "l", "d", " ", "I", " ", "d", "e", "c", "l", "a", "r", "e", " ", "m", "y", " ", "m", "a", "j", "o", "r", "?">>,
    <<"W", "h", "a", "t", " ", "c", "o", "u", "r", "s", "e", "s", " ", "s", "h", "o", "u", "l", "d", " ", "I", " ", "t", "a", "k", "e", " ", "n", "e", "x", "t", " ", "s", "e", "m", "e", "s", "t", "e", "r", "?">>,
    <<"D", "o", " ", "m", "y", " ", "A", "P", " ", "c", "r", "e", "d", "i", "t", "s", " ", "c", "o", "u", "n", "t", "?">> }

\* What the student can have in the text field after a change.
TypedInputs ==
  { <<>>, <<" ", " ">>, <<"\t">>, <<"h", "i">>, <<" ", "h", "i", " ">> }

Message(role, content) == [role |-> role, content |-> content]

\* content of the simulated reply.
AssistantReply == <<"B", "a", "s", "e", "d", " ", "o", "n">>

InitialMessages == { <<>>, <<Message("assistant", <<"H", "e", "l", "l", "o">>)>> }

InitChat ==
  /\ BuilderIdle
  /\ resolver = ResolverIdle
  /\ advisor = AdvisorIdle
  /\ proxy = ProxyIdle
  /\ dashboard = DashboardIdle
  /\ backendDashboard = BackendDashboardIdle
  /\ closure = ClosureIdle
  /\ \E initialMessages \in InitialMessages :
       chat = [ChatIdle EXCEPT !.messages = initialMessages, !.mounted = TRUE]

chatRest ==
  <<builderVars, resolver, advisor, proxy, dashboard, backendDashboard,
    closure>>

\* onChange of the text field, which is disabled while isLoading.
onChange(value) ==
  /\ ~chat.isLoading
  /\ chat.input # value
  /\ chat' = [chat EXCEPT !.input = value]
  /\ UNCHANGED chatRest

\* onClick of a quick-prompt badge.
quickPrompt(text) ==
  /\ chat.input # text
  /\ chat' = [chat EXCEPT !.input = text]
  /\ UNCHANGED chatRest

\* The state handleSend leaves: nothing changes for a blank input;
\* otherwise the user message is appended, the input cleared, isLoading set
\* and the timeout set.
handleSend(c) ==
  IF trim(c.input) = <<>>
  THEN [c EXCEPT !.calls = @ + 1]
  ELSE [c EXCEPT !.messages = Append(@, Message("user", c.input)),
                 !.input = <<>>,
                 !.isLoading = TRUE,
                 !.timers = @ + 1,
                 !.calls = @ + 1]

\* onKeyDown_Enter for a text field that stays enabled while isLoading.
onKeyDown_EnterNotDisabled ==
  /\ chat.calls < MaxCalls
  /\ chat' = handleSend(chat)
  /\ UNCHANGED chatRest

\* Enter in the text field, which is disabled while isLoading.
onKeyDown_Enter ==
  /\ ~chat.isLoading
  /\ chat.calls < MaxCalls
  /\ chat' = handleSend(chat)
  /\ UNCHANGED chatRest

\* onClick of the send button: disabled={isLoading || !input.trim()}.
onClick_Send ==
  /\ ~(chat.isLoading \/ trim(chat.input) = <<>>)
  /\ chat.calls < MaxCalls
  /\ chat' = handleSend(chat)
  /\ UNCHANGED chatRest

\* The timeout of handleSend fires after 1500 ms.
timeout ==
  /\ chat.timers > 0
  /\ chat' = [chat EXCEPT
               !.messages = Append(@, Message("assistant", AssistantReply)),
               !.isLoading = FALSE,
               !.timers = @ - 1]
  /\ UNCHANGED chatRest

NextChat ==
  \/ \E value \in TypedInputs : onChange(value)
  \/ \E text \in QuickPrompts : quickPrompt(text)
  \/ onKeyDown_Enter
  \/ onClick_Send
  \/ timeout

SpecChat == InitChat /\ [][NextChat]_vars

\* Every timeout that is set fires.
SpecChatFair == SpecChat /\ WF_vars(timeout)

\* --------------------------------------------------------------------------
IsPrefix(s, t) == Len(s) <= Len(t) /\ SubSeq(t, 1, Len(s)) = s

\* A step is a call of handleSend.
Sends == chat'.calls = chat.calls + 1

\* A reply is pending: the last message is a user message sent here.
ReplyPending ==
  /\ chat.messages # <<>>
  /\ Last(chat.messages).role = "user"

\* What one step of the chat may do to the conversation.
ChatStep ==
  /\ (Sends /\ trim(chat.input) = <<>>)
       => chat' = [chat EXCEPT !.calls = @ + 1]
  /\ (Sends /\ trim(chat.input) # <<>>)
       => /\ ~chat.isLoading
          /\ chat'.messages = Append(chat.messages, Message("user", chat.input))
          /\ chat'.isLoading
  /\ IsPrefix(chat.messages, chat'.messages)
  /\ Len(chat'.messages) <= Len(chat.messages) + 1
  /\ (chat.isLoading /\ ~chat'.isLoading)
       => /\ Len(chat'.messages) = Len(chat.messages) + 1
          /\ Last(chat'.messages).role = "assistant"
  /\ Len(chat'.messages) > Len(chat.messages)
       => (Sends \/ (chat.isLoading /\ ~chat'.isLoading))

\* C29: a send with blank input changes nothing; a send with non-blank
\* input appends exactly one user message and is eventually followed by
\* exactly one assistant message appended right after it; isLoading is true
\* exactly between the two; no send is accepted while a reply is pending;
\* and messages are never removed or reordered.
C29_SendThenReply ==
  /\ [][ChatStep]_vars
  /\ [](chat.isLoading <=> ReplyPending)
  /\ [](chat.timers = IF chat.isLoading THEN 1 ELSE 0)
  /\ \A n \in 1..(2 * MaxCalls + 1) :
       (chat.isLoading /\ Len(chat.messages) = n)
         ~> (/\ ~chat.isLoading
             /\ Len(chat.messages) = n + 1
             /\ chat.messages[n + 1].role = "assistant")

\* Two questions were sent and answered in turn, the second one a quick
\* prompt, and one call of handleSend had a blank input.
C29_Witness ==
  /\ chat.calls = 3
  /\ ~chat.isLoading
  /\ Len(chat.messages) = 4
  /\ chat.messages[1] = Message("user", <<"h", "i">>)
  /\ chat.messages[2].role = "assistant"
  /\ chat.messages[3].role = "user"
  /\ chat.messages[3].content \in QuickPrompts
  /\ chat.messages[4].role = "assistant"

====
